---- MODULE Spec2Model ----
(***************************************************************************)
(* Model of the invoice router of BBKM_Invoice_Program                     *)
(* (Scripts/Move_to_OneDrive.py): move_files, safe_move, the duplicate     *)
(* ledger, the plan-manager lookup and the classifier.                     *)
(*                                                                         *)
(* Strings are sequences of one-character strings, so that lower(),        *)
(* replace(), startswith(), `in`, splitext() and the regular expressions   *)
(* of the source are computed as the source computes them.  A path is a    *)
(* pair <<directory, name>>; a directory is a sequence of folder names.    *)
(***************************************************************************)
EXTENDS Integers, Sequences, FiniteSets, TLC

\* ------------------------------------------------------------------------
\* Characters and the string operations the source uses
\* ------------------------------------------------------------------------
UpperChars ==
    <<"A","B","C","D","E","F","G","H","I","J","K","L","M",
      "N","O","P","Q","R","S","T","U","V","W","X","Y","Z">>

LowerChars ==
    <<"a","b","c","d","e","f","g","h","i","j","k","l","m",
      "n","o","p","q","r","s","t","u","v","w","x","y","z">>

DigitChars == <<"0","1","2","3","4","5","6","7","8","9">>

Range(s) == {s[i] : i \in 1..Len(s)}

LowerSet == Range(LowerChars)
UpperSet == Range(UpperChars)
DigitSet == Range(DigitChars)

\* the characters \s matches and str.strip() removes
WhiteSpace == {" ", "\t", "\n", "\r"}

\* the characters \w matches
WordChars == LowerSet \cup UpperSet \cup DigitSet \cup {"_"}

LowerChar(c) ==
    IF c \in UpperSet
    THEN LowerChars[CHOOSE i \in 1..Len(UpperChars) : UpperChars[i] = c]
    ELSE c

\* str.lower()
Lower(s) == [i \in 1..Len(s) |-> LowerChar(s[i])]

\* str.startswith(p)
StartsWith(s, p) == Len(p) <= Len(s) /\ SubSeq(s, 1, Len(p)) = p

\* str.endswith(p)
EndsWith(s, p) == Len(p) <= Len(s) /\ SubSeq(s, Len(s) - Len(p) + 1, Len(s)) = p

\* `sub in s`
Contains(s, sub) ==
    \E i \in 0..(Len(s) - Len(sub)) : SubSeq(s, i + 1, i + Len(sub)) = sub

\* str.replace(" ", "")
RemoveSpaces(s) == SelectSeq(s, LAMBDA c : c # " ")

\* re.sub(r"[^a-z0-9]", "", s)
KeepAlnum(s) == SelectSeq(s, LAMBDA c : c \in LowerSet \cup DigitSet)

\* str.strip()
Strip(s) ==
    LET keep == {i \in 1..Len(s) : s[i] \notin WhiteSpace}
    IN  IF keep = {} THEN <<>>
        ELSE SubSeq(s, CHOOSE i \in keep : \A j \in keep : i <= j,
                       CHOOSE i \in keep : \A j \in keep : i >= j)

\* os.path.splitext(name): <<root, ext>>, split at the last dot unless only
\* dots come before it
SplitExt(name) ==
    LET dots == {i \in 1..Len(name) : name[i] = "."}
    IN  IF dots = {} THEN <<name, <<>>>>
        ELSE LET d == CHOOSE i \in dots : \A j \in dots : i >= j
             IN  IF \E j \in 1..(d - 1) : name[j] # "."
                 THEN <<SubSeq(name, 1, d - 1), SubSeq(name, d, Len(name))>>
                 ELSE <<name, <<>>>>

RECURSIVE Decimal(_)
\* str(i) of an f-string, i >= 0
Decimal(i) ==
    IF i < 10 THEN <<DigitChars[i + 1]>>
    ELSE Decimal(i \div 10) \o <<DigitChars[(i % 10) + 1]>>

\* ------------------------------------------------------------------------
\* Folder names and paths (Config & Paths).  The drive prefixes are left out:
\* a directory is the sequence of its last folder names.
\* ------------------------------------------------------------------------
N_InvoiceProgram == <<"I","n","v","o","i","c","e"," ","P","r","o","g","r","a","m">>
N_Invoices == <<"I","n","v","o","i","c","e","s">>
N_RenamedInvoices == <<"R","e","n","a","m","e","d"," ","I","n","v","o","i","c","e","s">>
N_Failed == <<"F","a","i","l","e","d">>
N_AttemptCode == <<"A","t","t","e","m","p","t"," ","C","o","d","e">>
N_FailedToCode == <<"F","a","i","l","e","d"," ","t","o"," ","C","o","d","e">>
N_RenamedReceipts == <<"R","e","n","a","m","e","d"," ","R","e","c","e","i","p","t","s">>
N_ManualLodgement == <<"M","a","n","u","a","l"," ","L","o","d","g","e","m","e","n","t">>
N_NewProvider == <<"N","e","w"," ","P","r","o","v","i","d","e","r">>
N_Unassigned == <<"U","n","a","s","s","i","g","n","e","d"," ","P","l","a","n"," ","M","a","n","a","g","e","r">>
N_STA == <<"S","T","A"," ","a","n","d"," ","A","s","s","i","s","t","a","n","c","e">>
N_Streamline == <<"S","t","r","e","a","m","l","i","n","e"," ","I","n","v","o","i","c","e","s">>
N_AT == <<"A","T","&","C","o","n","s","u","m","a","b","l","e","s">>
N_NdisStatement == <<"N","D","I","S"," ","A","c","t","i","v","i","t","y"," ","S","t","a","t","e","m","e","n","t">>
N_StreamlineFailed == <<"S","t","r","e","a","m","l","i","n","e"," ","f","a","i","l","e","d"," ","t","o"," ","c","o","d","e">>
N_FailedManual == <<"F","a","i","l","e","d"," ","M","a","n","u","a","l"," ","L","o","d","g","m","e","n","t">>
N_FailedAT == <<"F","a","i","l","e","d"," ","A","T","&","C","o","n","s","u","m","a","b","l","e","s">>
N_CouldNotMove == <<"C","o","u","l","d"," ","n","o","t"," ","m","o","v","e">>

DEST_FOLDER == <<N_InvoiceProgram>>
NDIS_STATEMENT_PATH == DEST_FOLDER \o <<N_NdisStatement>>
SRC_FOLDER == <<N_Invoices, N_RenamedInvoices>>
RECEIPTS_FOLDER == DEST_FOLDER \o <<N_RenamedReceipts>>
MANUAL_LODGEMENT_FOLDER == DEST_FOLDER \o <<N_ManualLodgement>>
NEW_PROVIDER_FOLDER == DEST_FOLDER \o <<N_NewProvider>>
UNASSIGNED_PLAN_MANAGER_FOLDER == DEST_FOLDER \o <<N_Unassigned>>
SRC_FOLDER_ATTEMPT == DEST_FOLDER \o <<N_AttemptCode>>
DEST_FOLDER_ATTEMPT == <<N_Invoices>>
SRC_FOLDER_FAILED == <<N_Invoices, N_Failed>>
DEST_FOLDER_FAILED == DEST_FOLDER \o <<N_FailedToCode>>
STA_INVOICES_FOLDER == DEST_FOLDER \o <<N_STA>>
STREAMLINE_FOLDER == DEST_FOLDER \o <<N_Streamline>>
AT_CONSUMABLES_FOLDER == DEST_FOLDER \o <<N_AT>>
STREAMLINE_FAILED_FOLDER == DEST_FOLDER_FAILED \o <<N_StreamlineFailed>>
FAILED_MANUAL_FOLDER == DEST_FOLDER_FAILED \o <<N_FailedManual>>
FAILED_AT_FOLDER == DEST_FOLDER_FAILED \o <<N_FailedAT>>
COULD_NOT_MOVE_FOLDER == DEST_FOLDER_FAILED \o <<N_CouldNotMove>>

\* os.path.basename(dir) and os.path.split(dir)[1]
BaseName(dir) == dir[Len(dir)]

\* os.path.dirname(dir)
DirName(dir) == SubSeq(dir, 1, Len(dir) - 1)

\* os.path.join(dir, name), the path of an entry of dir
Join(dir, name) == <<dir, name>>

\* the directory a path names when it is a folder
AsDir(p) == p[1] \o <<p[2]>>

\* every directory os.makedirs(dir, exist_ok=True) leaves in place
Ancestors(dir) == {SubSeq(dir, 1, k) : k \in 1..Len(dir)}

DOUBLE_PREFIX == <<"d","o","u","b","l","e","_">>
UNMOVED_PREFIX == <<"u","n","m","o","v","e","d","_">>
CORRUPT_PREFIX == <<"c","o","r","r","u","p","t","_">>
DESKTOP_INI == <<"d","e","s","k","t","o","p",".","i","n","i">>
RECEIPT_WORD == <<"r","e","c","e","i","p","t">>
PDF_EXT == <<".","p","d","f">>
NDIS_TOKEN == <<"n","d","i","s","a","c","t","i","v","i","t","y","s","t","a","t","e","m","e","n","t">>

\* ------------------------------------------------------------------------
\* Vendor table (Vendors.csv as load_vendors returns it, in file order)
\* ------------------------------------------------------------------------
V_StreamlineCo == <<"S","t","r","e","a","m","l","i","n","e"," ","C","o">>
V_ManualBros == <<"M","a","n","u","a","l"," ","B","r","o","s">>
V_ATSupplies == <<"A","T"," ","S","u","p","p","l","i","e","s">>
V_GardenCare == <<"G","a","r","d","e","n"," ","C","a","r","e">>

VENDORS ==
    << [vendor |-> V_StreamlineCo, folder_type |-> 1],
       [vendor |-> V_ManualBros,   folder_type |-> 2],
       [vendor |-> V_ATSupplies,   folder_type |-> 3],
       [vendor |-> V_GardenCare,   folder_type |-> 4] >>

\* no vendor found (None)
NoVendor == <<>>

\* VENDORS[found_vendor] / VENDORS.get(found_vendor)
FolderTypeOf(v) ==
    IF \E i \in 1..Len(VENDORS) : VENDORS[i].vendor = v
    THEN VENDORS[CHOOSE i \in 1..Len(VENDORS) : VENDORS[i].vendor = v].folder_type
    ELSE 0

\* the cleaned alias: vendor_raw.replace(" ", "").lower()
CleanVendor(v) == Lower(RemoveSpaces(v))

\* the inner for loop over VENDORS.items(): the first vendor, in table
\* order, whose cleaned alias occurs in `content`; NoVendor when none does
FirstVendorIn(content) ==
    LET hits == {i \in 1..Len(VENDORS) : Contains(content, CleanVendor(VENDORS[i].vendor))}
    IN  IF hits = {} THEN NoVendor
        ELSE VENDORS[CHOOSE i \in hits : \A j \in hits : i <= j].vendor

\* ------------------------------------------------------------------------
\* Client registry and plan-manager lookup
\* ------------------------------------------------------------------------
C_ABC123 == <<"A","B","C","1","2","3">>
C_XY9 == <<"X","Y","9">>
PM_Acme == <<"A","c","m","e"," ","P","l","a","n","s">>
PM_Beta == <<"B","e","t","a"," ","C","a","r","e">>

\* rows of Client_Profiles.csv: the Client Code and Assigned Plan Manager
\* columns; the empty sequence of rows is the missing file
ProfileRows ==
    << [code |-> C_ABC123, plan_manager |-> PM_Acme],
       [code |-> <<" ">>,  plan_manager |-> PM_Beta],
       [code |-> C_XY9,    plan_manager |-> PM_Beta \o <<" ">>] >>

RECURSIVE _build_client_records(_)
_build_client_records(rows) ==
    IF rows = <<>> THEN <<>>
    ELSE LET code == Strip(Head(rows).code)
             pm == Strip(Head(rows).plan_manager)
         IN  IF code = <<>> THEN _build_client_records(Tail(rows))
             ELSE <<[code |-> code,
                     code_normalized |-> KeepAlnum(Lower(code)),
                     plan_manager |-> pm]>> \o _build_client_records(Tail(rows))

\* re.sub(r'[<>:"/\\|?*]', "_", name).strip()
_sanitize_folder_name(name) ==
    Strip([i \in 1..Len(name) |->
              IF name[i] \in {"<", ">", ":", "\"", "/", "\\", "|", "?", "*"}
              THEN "_" ELSE name[i]])

_plan_manager_root(plan_manager) ==
    LET label == Strip(plan_manager)
    IN  IF label = <<>> THEN UNASSIGNED_PLAN_MANAGER_FOLDER
        ELSE LET safe_name == _sanitize_folder_name(label)
             IN  IF safe_name # <<>> THEN DEST_FOLDER \o <<safe_name>>
                 ELSE UNASSIGNED_PLAN_MANAGER_FOLDER

\* one iteration of the for loop of _lookup_plan_manager
RecordMatches(record, base_name, normalized_base) ==
    LET code_lower == Lower(record.code)
    IN  \/ StartsWith(base_name, code_lower)
        \/ \E separator \in {"_", "-", " "} :
              StartsWith(base_name, code_lower \o <<separator>>)
        \/ /\ record.code_normalized # <<>>
           /\ StartsWith(normalized_base, record.code_normalized)

\* _lookup_plan_manager returning the last record that matches
_lookup_plan_manager_Last(records, filename) ==
    LET base_name == Lower(SplitExt(filename)[1])
        normalized_base == KeepAlnum(base_name)
        hits == {i \in 1..Len(records) :
                    RecordMatches(records[i], base_name, normalized_base)}
    IN  IF hits = {} THEN <<>>
        ELSE records[CHOOSE i \in hits : \A j \in hits : i >= j].plan_manager

_lookup_plan_manager(records, filename) ==
    LET base_name == Lower(SplitExt(filename)[1])
        normalized_base == KeepAlnum(base_name)
        hits == {i \in 1..Len(records) :
                    RecordMatches(records[i], base_name, normalized_base)}
    IN  IF hits = {} THEN <<>>
        ELSE records[CHOOSE i \in hits : \A j \in hits : i <= j].plan_manager

\* ------------------------------------------------------------------------
\* Documents: what a file holds.  A document is an index of DOCS; pages is
\* what pytesseract.image_to_string returns for each rendered page, renders
\* is whether convert_from_path can render the file, size its byte size.
\* ------------------------------------------------------------------------
T_Vendor1 == <<"T","a","x"," ","I","n","v","o","i","c","e","\n","S","t","r","e","a","m","l","i","n","e"," ","C","o">>
T_Vendor2 == <<"M","A","N","U","A","L"," "," ","B","R","O","S">>
T_Vendor3 == <<"A","T"," ","S","u","p","p","l","i","e","s">>
T_Vendor4 == <<"G","a","r","d","e","n"," ","C","a","r","e">>
T_NdisVendor == <<"N","d","i","s"," "," ","A","C","T","I","V","I","T","Y"," ","S","t","a","t","e","m","e","n","t","\n","S","t","r","e","a","m","l","i","n","e"," ","C","o">>
T_NdisNewline == <<"N","D","I","S"," ","A","c","t","i","v","i","t","y","\n","S","t","a","t","e","m","e","n","t">>
T_StaVendor == <<"S","T","A","\n","M","a","n","u","a","l"," ","B","r","o","s">>
T_Plain == <<"H","e","l","l","o">>
T_StaOnly == <<"I","n","v","o","i","c","e","\n","2","S","T","A","\n">>
T_RespiteVendor == <<"I","n","c",".","\n","R","e","s","p","i","t","e","\n","G","a","r","d","e","n"," ","C","a","r","e">>
T_RespiteSpace == <<"I","N","C","."," ","R","e","s","p","i","t","e","\n","G","a","r","d","e","n"," ","C","a","r","e">>

DOCS ==
    << [pages |-> <<T_Vendor1>>,     renders |-> TRUE,  size |-> 11],
       [pages |-> <<T_Vendor2>>,     renders |-> TRUE,  size |-> 12],
       [pages |-> <<T_Vendor3>>,     renders |-> TRUE,  size |-> 13],
       [pages |-> <<T_Vendor4>>,     renders |-> TRUE,  size |-> 14],
       [pages |-> <<T_Plain, T_NdisVendor>>, renders |-> TRUE, size |-> 15],
       [pages |-> <<T_NdisNewline>>, renders |-> TRUE,  size |-> 16],
       [pages |-> <<T_StaVendor>>,   renders |-> TRUE,  size |-> 17],
       [pages |-> <<T_Plain>>,       renders |-> TRUE,  size |-> 18],
       [pages |-> <<>>,              renders |-> FALSE, size |-> 19],
       [pages |-> <<T_Vendor1, T_Vendor2>>, renders |-> TRUE, size |-> 20],
       [pages |-> <<T_StaVendor, T_NdisVendor>>, renders |-> TRUE, size |-> 21],
       [pages |-> <<T_StaOnly>>,     renders |-> TRUE,  size |-> 22],
       [pages |-> <<T_RespiteVendor>>, renders |-> TRUE, size |-> 23],
       [pages |-> <<T_RespiteSpace>>, renders |-> TRUE, size |-> 24] >>

DocIds == 1..Len(DOCS)

\* file_hash = None
NoHash == <<>>

\* _file_hash: the SHA-256 digest of the bytes, one digest per document
_file_hash(doc) == <<"sha256", doc>>

\* ------------------------------------------------------------------------
\* Classifier: the OCR loop of move_files
\* ------------------------------------------------------------------------
\* pytesseract.image_to_string(...).lower().replace(" ", "")
PageContent(text) == RemoveSpaces(Lower(text))

\* \b at position i (between s[i-1] and s[i]) of s
WordBoundary(s, i) ==
    LET before == i > 1 /\ s[i - 1] \in WordChars
        after == i <= Len(s) /\ s[i] \in WordChars
    IN  before # after

\* re.search(r'\bsta\b|\b\dsta\b', content)
MatchesSta(content) ==
    \/ \E i \in 1..(Len(content) - 2) :
          /\ SubSeq(content, i, i + 2) = <<"s","t","a">>
          /\ WordBoundary(content, i)
          /\ WordBoundary(content, i + 3)
    \/ \E i \in 1..(Len(content) - 3) :
          /\ content[i] \in DigitSet
          /\ SubSeq(content, i + 1, i + 3) = <<"s","t","a">>
          /\ WordBoundary(content, i)
          /\ WordBoundary(content, i + 4)

\* re.search(r'inc\.\srespite', content)
MatchesRespite(content) ==
    \E i \in 1..(Len(content) - 11) :
        /\ SubSeq(content, i, i + 3) = <<"i","n","c",".">>
        /\ content[i + 4] \in WhiteSpace
        /\ SubSeq(content, i + 5, i + 11) = <<"r","e","s","p","i","t","e">>

NoFlags ==
    [found_sta |-> FALSE, found_respite |-> FALSE,
     found_ndis_statement |-> FALSE, found_vendor |-> NoVendor]

RECURSIVE ScanPages(_, _)
\* for image in images: ... ; `found` is the four flags so far
ScanPages(pages, found) ==
    IF pages = <<>> THEN found
    ELSE LET content == PageContent(Head(pages))
         IN  IF Contains(content, NDIS_TOKEN)
             THEN [found EXCEPT !.found_ndis_statement = TRUE]
             ELSE LET v == FirstVendorIn(content)
                  IN  ScanPages(Tail(pages),
                        [found EXCEPT
                           !.found_sta = @ \/ MatchesSta(content),
                           !.found_respite = @ \/ MatchesRespite(content),
                           !.found_vendor = IF v # NoVendor THEN v ELSE @])

RECURSIVE CollapseSeparators(_, _)
\* re.sub(r'[\s ._-]+', ' ', stem): every run of separators becomes
\* one space (no name of the model holds a no-break space)
CollapseSeparators(s, inRun) ==
    IF s = <<>> THEN <<>>
    ELSE IF Head(s) \in WhiteSpace \cup {".", "_", "-"}
         THEN (IF inRun THEN <<>> ELSE <<" ">>) \o CollapseSeparators(Tail(s), TRUE)
         ELSE <<Head(s)>> \o CollapseSeparators(Tail(s), FALSE)

\* Fallback: infer vendor from filename if OCR missed it
VendorFromFilename(filename) ==
    LET stem == SplitExt(filename)[1]
        norm_name == Lower(Strip(CollapseSeparators(stem, FALSE)))
        squashed == RemoveSpaces(norm_name)
        hits == {i \in 1..Len(VENDORS) : Contains(squashed, CleanVendor(VENDORS[i].vendor))}
    IN  IF hits = {} THEN NoVendor
        ELSE VENDORS[CHOOSE i \in hits : \A j \in hits : i <= j].vendor

\* Files already in Failed: the target folder
FailedTarget(found_vendor) ==
    IF found_vendor # NoVendor
    THEN CASE FolderTypeOf(found_vendor) = 1 -> STREAMLINE_FAILED_FOLDER
           [] FolderTypeOf(found_vendor) = 2 -> FAILED_MANUAL_FOLDER
           [] FolderTypeOf(found_vendor) = 3 -> FAILED_AT_FOLDER
           [] OTHER -> DEST_FOLDER_FAILED
    ELSE DEST_FOLDER_FAILED

\* ChooseTarget with the category folders taken under DEST_FOLDER itself,
\* whatever the plan manager
ChooseTarget_Flat(found, found_vendor, plan_manager_base) ==
    IF found.found_sta \/ found.found_respite
    THEN STA_INVOICES_FOLDER
    ELSE IF found_vendor # NoVendor
    THEN CASE FolderTypeOf(found_vendor) = 1 -> STREAMLINE_FOLDER
           [] FolderTypeOf(found_vendor) = 2 -> MANUAL_LODGEMENT_FOLDER
           [] FolderTypeOf(found_vendor) = 3 -> AT_CONSUMABLES_FOLDER
           [] OTHER -> DEST_FOLDER \o <<found_vendor>>
    ELSE NEW_PROVIDER_FOLDER

\* ChooseTarget with the vendor looked at before the STA / respite flags
ChooseTarget_VendorFirst(found, found_vendor, plan_manager_base) ==
    IF found_vendor # NoVendor
    THEN CASE FolderTypeOf(found_vendor) = 1 ->
                plan_manager_base \o <<BaseName(STREAMLINE_FOLDER)>>
           [] FolderTypeOf(found_vendor) = 2 ->
                plan_manager_base \o <<BaseName(MANUAL_LODGEMENT_FOLDER)>>
           [] FolderTypeOf(found_vendor) = 3 ->
                plan_manager_base \o <<BaseName(AT_CONSUMABLES_FOLDER)>>
           [] OTHER -> plan_manager_base \o <<found_vendor>>
    ELSE IF found.found_sta \/ found.found_respite
    THEN plan_manager_base \o <<BaseName(STA_INVOICES_FOLDER)>>
    ELSE plan_manager_base \o <<BaseName(NEW_PROVIDER_FOLDER)>>

\* Choose destination: the target folder of a PDF of the main source folder
ChooseTarget(found, found_vendor, plan_manager_base) ==
    IF found.found_sta \/ found.found_respite
    THEN plan_manager_base \o <<BaseName(STA_INVOICES_FOLDER)>>
    ELSE IF found_vendor # NoVendor
    THEN CASE FolderTypeOf(found_vendor) = 1 ->
                plan_manager_base \o <<BaseName(STREAMLINE_FOLDER)>>
           [] FolderTypeOf(found_vendor) = 2 ->
                plan_manager_base \o <<BaseName(MANUAL_LODGEMENT_FOLDER)>>
           [] FolderTypeOf(found_vendor) = 3 ->
                plan_manager_base \o <<BaseName(AT_CONSUMABLES_FOLDER)>>
           [] OTHER -> plan_manager_base \o <<found_vendor>>
    ELSE plan_manager_base \o <<BaseName(NEW_PROVIDER_FOLDER)>>

\* ------------------------------------------------------------------------
\* The file system: fsys maps the path of every regular file to its
\* document, dsys is the set of directories
\* ------------------------------------------------------------------------
\* no path (None)
NoPath == <<>>

\* os.path.exists(p)
Exists(fsys, dsys, p) == p \in DOMAIN fsys \/ AsDir(p) \in dsys

\* os.path.isfile(p)
IsFile(fsys, p) == p \in DOMAIN fsys

\* os.listdir(dir): the names of the files and folders in dir
ListDir(fsys, dsys, dir) ==
    {p[2] : p \in {q \in DOMAIN fsys : q[1] = dir}}
      \cup {BaseName(d) : d \in {e \in dsys : Len(e) > 1 /\ DirName(e) = dir}}

\* fsys without the file at p
RemoveFile(fsys, p) == [q \in (DOMAIN fsys) \ {p} |-> fsys[q]]

\* fsys with document doc at p
PutFile(fsys, p, doc) == (p :> doc) @@ fsys

RECURSIVE CounterLoop(_, _, _, _, _, _)
\* the while loop of _unique_with_counter, entered with counter i
CounterLoop(fsys, dsys, cand, base, ext, i) ==
    IF Exists(fsys, dsys, cand)
    THEN CounterLoop(fsys, dsys,
                     <<cand[1], base \o <<" ", "(">> \o Decimal(i) \o <<")">> \o ext>>,
                     base, ext, i + 1)
    ELSE cand

_unique_with_counter(fsys, dsys, dest) ==
    LET parts == SplitExt(dest[2])
    IN  CounterLoop(fsys, dsys, dest, parts[1], parts[2], 1)

\* what a call of shutil.move(src, dst) can leave behind: "ok" renames the
\* file; "fail" raises with nothing changed; "partial" raises after os.rename
\* was refused, the copy to dst was written and os.unlink(src) was refused
MoveOutcomes == {"ok", "fail", "partial"}

ShutilMove(fsys, src, dst, outcome) ==
    CASE outcome = "ok"      -> PutFile(RemoveFile(fsys, src), dst, fsys[src])
      [] outcome = "partial" -> PutFile(fsys, dst, fsys[src])
      [] OTHER               -> fsys

\* os.rename(src, dst) of the duplicate marking
OsRename(fsys, src, dst) == PutFile(RemoveFile(fsys, src), dst, fsys[src])

\* ------------------------------------------------------------------------
\* Settle detector
\* ------------------------------------------------------------------------
\* an observation of os.path.getsize that raises
SizeError == 0 - 2

SettleChecks == 3

RECURSIVE SettleLoop(_, _, _, _)
\* the for loop of _wait_for_settle over the size samples obs, with the
\* values of `last` and `stable` on entry
SettleLoop(obs, last, stable, checks) ==
    IF obs = <<>> THEN TRUE
    ELSE LET size == Head(obs)
         IN  IF size = SizeError THEN FALSE
             ELSE IF size = last
                  THEN IF stable + 1 >= checks THEN TRUE
                       ELSE SettleLoop(Tail(obs), size, stable + 1, checks)
                  ELSE SettleLoop(Tail(obs), size, 0, checks)

\* _wait_for_settle(path, checks): obs are the checks * 3 sizes the polls read
_wait_for_settle(obs, checks) == SettleLoop(obs, 0 - 1, 0, checks)

\* the size samples a file of `size` bytes can show: unchanged, still
\* growing up to its size, or unreadable from some poll on
SettleObs(size) ==
    { [i \in 1..(SettleChecks * 3) |-> size],
      [i \in 1..(SettleChecks * 3) |-> size - (SettleChecks * 3) + i],
      [i \in 1..(SettleChecks * 3) |-> IF i < 2 THEN size ELSE SizeError] }

\* ------------------------------------------------------------------------
\* Duplicate ledger (table file_history keyed by sha256).  Time is counted
\* in days.
\* ------------------------------------------------------------------------
DupWindowDays == 90

\* _db_seen_recently with the window measured from first_seen_utc
_db_seen_recently_FirstSeen(led, file_hash, days, clock) ==
    LET cutoff == clock - days
    IN  file_hash \in DOMAIN led /\ led[file_hash].first_seen_utc > cutoff

\* _db_record with INSERT OR REPLACE in place of the upsert: the row is
\* written anew at every call
_db_record_Replace(led, fsys, path, file_hash, clock) ==
    LET size == IF IsFile(fsys, path) THEN DOCS[fsys[path]].size ELSE 0 - 1
    IN  (file_hash :> [size |-> size, first_seen_utc |-> clock,
                       last_seen_utc |-> clock, last_path |-> path]) @@ led

_db_seen_recently(led, file_hash, days, clock) ==
    LET cutoff == clock - days
    IN  file_hash \in DOMAIN led /\ led[file_hash].last_seen_utc > cutoff

\* _db_record with an UPDATE in place of the upsert: a hash that has no row
\* gets none
_db_record_UpdateOnly(led, fsys, path, file_hash, clock) ==
    IF file_hash \in DOMAIN led
    THEN [led EXCEPT ![file_hash] = [@ EXCEPT !.last_seen_utc = clock, !.last_path = path]]
    ELSE led

\* size is os.path.getsize(path), 0 - 1 standing for None
_db_record(led, fsys, path, file_hash, clock) ==
    LET size == IF IsFile(fsys, path) THEN DOCS[fsys[path]].size ELSE 0 - 1
    IN  IF file_hash \in DOMAIN led
        THEN [led EXCEPT ![file_hash] =
                 [@ EXCEPT !.last_seen_utc = clock,
                           !.last_path = path,
                           !.size = IF size # 0 - 1 THEN size ELSE @]]
        ELSE (file_hash :> [size |-> size, first_seen_utc |-> clock,
                            last_seen_utc |-> clock, last_path |-> path]) @@ led

\* SameNameAndHash without the test that skips the file itself
SameNameAndHash_WithSelf(fsys, dsys, folder, my_path, my_name, my_hash) ==
    {p \in {Join(folder, name) : name \in ListDir(fsys, dsys, folder)} :
        /\ IsFile(fsys, p)
        /\ Lower(p[2]) = Lower(my_name)
        /\ _file_hash(fsys[p]) = my_hash}

\* _find_same_name_and_hash_in_folder: the siblings that qualify (the
\* function returns the first of them in listing order, None if there is none)
SameNameAndHash(fsys, dsys, folder, my_path, my_name, my_hash) ==
    {p \in {Join(folder, name) : name \in ListDir(fsys, dsys, folder)} :
        /\ p # my_path
        /\ IsFile(fsys, p)
        /\ Lower(p[2]) = Lower(my_name)
        /\ _file_hash(fsys[p]) = my_hash}

\* ------------------------------------------------------------------------
\* Routing decision of one iteration of move_files (lines 381-498): which
\* branch handles the file and the destination path handed to safe_move
\* ------------------------------------------------------------------------
Decision(kind, dest_path) == [kind |-> kind, dest_path |-> dest_path]

\* PdfDestination with the Failed-folder branch tested before the NDIS flag
PdfDestination_FailedFirst(srcf, filename, doc, plan_manager_base) ==
    LET found == ScanPages(DOCS[doc].pages, NoFlags)
    IN  IF srcf = SRC_FOLDER_FAILED
        THEN Decision("failed", Join(FailedTarget(found.found_vendor), filename))
        ELSE IF found.found_ndis_statement
        THEN Decision("ndis", Join(NDIS_STATEMENT_PATH, filename))
        ELSE LET found_vendor == IF found.found_vendor = NoVendor
                                 THEN VendorFromFilename(filename)
                                 ELSE found.found_vendor
             IN  Decision("routed",
                     Join(ChooseTarget(found, found_vendor, plan_manager_base), filename))

\* the branch for a PDF of SRC_FOLDER / SRC_FOLDER_FAILED that rendered
PdfDestination(srcf, filename, doc, plan_manager_base) ==
    LET found == ScanPages(DOCS[doc].pages, NoFlags)
    IN  IF found.found_ndis_statement
        THEN Decision("ndis", Join(NDIS_STATEMENT_PATH, filename))
        ELSE IF srcf = SRC_FOLDER_FAILED
        THEN Decision("failed", Join(FailedTarget(found.found_vendor), filename))
        ELSE LET found_vendor == IF found.found_vendor = NoVendor
                                 THEN VendorFromFilename(filename)
                                 ELSE found.found_vendor
             IN  Decision("routed",
                     Join(ChooseTarget(found, found_vendor, plan_manager_base), filename))

\* ocrOk: pytesseract.image_to_string raised nothing
Destination(srcf, destf, filename, doc, ocrOk, records) ==
    LET plan_manager == _lookup_plan_manager(records, filename)
        plan_manager_base == _plan_manager_root(plan_manager)
    IN  IF srcf = SRC_FOLDER_ATTEMPT
        THEN Decision("attempt", Join(destf, filename))
        ELSE IF Contains(Lower(filename), RECEIPT_WORD) /\ BaseName(destf) = N_InvoiceProgram
        THEN Decision("receipt", Join(RECEIPTS_FOLDER, filename))
        ELSE IF EndsWith(Lower(filename), PDF_EXT) /\ srcf \in {SRC_FOLDER, SRC_FOLDER_FAILED}
        THEN IF ~DOCS[doc].renders
             THEN Decision("corrupt", Join(DEST_FOLDER_FAILED, CORRUPT_PREFIX \o filename))
             ELSE IF ~ocrOk
             THEN Decision("ocr_error", NoPath)
             ELSE PdfDestination(srcf, filename, doc, plan_manager_base)
        ELSE Decision("ignored", NoPath)

\* HasHash with a hash that failed taken for a hash
HasHash_Always(file_hash) == TRUE

\* `if file_hash` (lines 363, 388, 397, 410, 437, 459, 497): None is false
HasHash(file_hash) == file_hash # NoHash

\* DoubleMatches with the ledger hit alone deciding: the file counts as its
\* own match
DoubleMatches_LedgerOnly(led, fsys, dsys, folder, my_path, my_name, my_hash, clock) ==
    IF my_hash # NoHash /\ _db_seen_recently(led, my_hash, DupWindowDays, clock)
    THEN {my_path}
    ELSE {}

\* STRICT double_ policy (lines 363-365): the siblings that make the file a
\* duplicate; empty when it is not to be marked
DoubleMatches(led, fsys, dsys, folder, my_path, my_name, my_hash, clock) ==
    IF my_hash # NoHash /\ _db_seen_recently(led, my_hash, DupWindowDays, clock)
    THEN SameNameAndHash(fsys, dsys, folder, my_path, my_name, my_hash)
    ELSE {}

\* DoublePath with the marker put after the name
DoublePath_Suffix(fsys, dsys, folder, filename) ==
    Join(folder, filename \o <<"_">> \o SubSeq(DOUBLE_PREFIX, 1, Len(DOUBLE_PREFIX) - 1))

\* lines 366-369: the path the duplicate is renamed to
DoublePath(fsys, dsys, folder, filename) ==
    LET new_path == Join(folder, DOUBLE_PREFIX \o filename)
    IN  IF Exists(fsys, dsys, new_path)
        THEN _unique_with_counter(fsys, dsys, new_path)
        ELSE new_path

\* MoveTarget without the collision test
MoveTarget_Overwrite(fsys, dsys, dest) == dest

\* safe_move lines 301-308: the path one attempt moves the file to
MoveTarget(fsys, dsys, dest) ==
    IF ~Exists(fsys, dsys, dest) THEN dest
    ELSE _unique_with_counter(fsys, dsys, dest)

\* QuarantineDest under the folder of the source file
QuarantineDest_InSource(fsys, dsys, src) ==
    _unique_with_counter(fsys, dsys, Join(src[1], UNMOVED_PREFIX \o src[2]))

\* QuarantineDest without the counter
QuarantineDest_NoCounter(fsys, dsys, src) ==
    Join(COULD_NOT_MOVE_FOLDER, UNMOVED_PREFIX \o src[2])

\* safe_move lines 316-318: the quarantine path
QuarantineDest(fsys, dsys, src) ==
    _unique_with_counter(fsys, dsys, Join(COULD_NOT_MOVE_FOLDER, UNMOVED_PREFIX \o src[2]))

\* move_files lines 333-338: the names move_files lists in src, none when
\* the folder is not there (FileNotFoundError)
ListedFiles(fsys, dsys, src) ==
    IF src \in dsys
    THEN {f \in ListDir(fsys, dsys, src) :
            /\ IsFile(fsys, Join(src, f))
            /\ Lower(f) # DESKTOP_INI}
    ELSE {}

\* SafeMoveReturns with True returned when the file was quarantined
SafeMoveReturns_QuarantineTrue(how) == how \in {"moved", "quarantined"}

\* what safe_move returns to `if safe_move(...)`: True after a move to the
\* destination (lines 303 and 310), False when the source was not found
\* (line 294), after the quarantine fallback whether it worked or not (line
\* 324), and after an error caught by the outer handler (line 328)
SafeMoveReturns(how) == how = "moved"

\* SkipsUnsettled without the test: the file goes on whatever
\* _wait_for_settle returned
SkipsUnsettled_Never(settled) == FALSE

\* move_files lines 347-349: `if not _wait_for_settle(...): ... continue`
SkipsUnsettled(settled) == ~settled

\* QuarantineMove that loses the source file when the move raises
QuarantineMove_LosesSource(fsys, src, quarantine_dest, outcome) ==
    IF outcome = "ok" THEN ShutilMove(fsys, src, quarantine_dest, outcome)
    ELSE RemoveFile(ShutilMove(fsys, src, quarantine_dest, outcome), src)

\* safe_move lines 319-323: the one shutil.move into the quarantine folder,
\* whose exception is printed and not raised again
QuarantineMove(fsys, src, quarantine_dest, outcome) ==
    ShutilMove(fsys, src, quarantine_dest, outcome)

\* SourceFound without the test: safe_move goes on to os.makedirs and the
\* retry loop whether the source is there or not
SourceFound_Always(fsys, dsys, src) == TRUE

\* safe_move lines 291-294: `if not os.path.exists(src): ... return False`
SourceFound(fsys, dsys, src) == Exists(fsys, dsys, src)

\* retries of safe_move
RETRIES == 3

\* RetriesExhausted with one more turn of the loop
RetriesExhausted_Late(attempt, retries) == attempt > retries + 1

\* lines 299 and 314: the loop goes on while attempt <= retries
RetriesExhausted(attempt, retries) == attempt > retries

\* ------------------------------------------------------------------------
\* State
\* ------------------------------------------------------------------------
VARIABLES
    fs,              \* path -> document, the regular files on disk
    dirs,            \* the directories on disk
    ledger,          \* sha256 -> row of file_history
    now,             \* datetime.utcnow(), in days
    CLIENT_RECORDS,  \* the client registry built at import
    pc,              \* "idle", "loop" (between two files), "move" (inside
                     \* safe_move's while loop), "raised" (move_files raised)
    src_folder,      \* arguments of the running move_files call
    dest_folder,
    files,           \* the listing taken at the start of the pass
    idx,             \* position of the for loop in files
    cur,             \* locals of the iteration in progress
    results,         \* what each finished iteration of this pass printed
    pass0,           \* fs, ledger and clock when the pass listed the folder
    passes,          \* passes finished
    faults,          \* environment faults so far (I/O errors, lost files)
    taken,           \* paths of the files the environment took away
    call,            \* the call examined when one function is run on its own:
                     \* its arguments, its locals and what it returned
    recorded,        \* the calls of _db_record made so far, when the ledger
                     \* is run on its own
    script_thread,   \* App.script_thread: 0 (None) or the thread it refers to
    stop_flag,       \* the threading.Event shared by the GUI and main()
    _stop_requested, \* App._stop_requested
    threads,         \* the pipeline threads started so far, by their number
    after            \* calls of check_script_finished scheduled by root.after

vars == <<fs, dirs, ledger, now, CLIENT_RECORDS, pc, src_folder, dest_folder,
          files, idx, cur, results, pass0, passes, faults, taken, call, recorded,
          script_thread, stop_flag, _stop_requested, threads, after>>

\* the state of GUI.App and of the threads it starts
guiVars == <<script_thread, stop_flag, _stop_requested, threads, after>>

\* App.__init__ (lines 81-85): no thread has been started
NoGui ==
    /\ script_thread = 0
    /\ stop_flag = FALSE
    /\ _stop_requested = FALSE
    /\ threads = <<>>
    /\ after = 0

\* ------------------------------------------------------------------------
\* Bounds and the files the model starts from
\* ------------------------------------------------------------------------
MaxPasses == 3
MaxOccupied == 2
MaxFaults == 1
TickDays == 45
MaxNow == 135

F_ABC == <<"A","B","C","1","2","3","_","i","n","v","o","i","c","e",".","p","d","f">>
F_abc == <<"a","b","c","1","2","3","_","i","n","v","o","i","c","e",".","p","d","f">>
F_Abc == <<"A","b","c","1","2","3","_","i","n","v","o","i","c","e",".","p","d","f">>
F_Receipt == <<"X","Y","9"," ","r","e","c","e","i","p","t",".","p","d","f">>
F_Notes == <<"n","o","t","e","s",".","t","x","t">>
F_DoubleABC == <<"d","o","u","b","l","e","_","A","B","C","1","2","3","_","i","n","v","o","i","c","e",".","p","d","f">>
F_Scan == <<"s","c","a","n",".","P","D","F">>
F_DesktopIni == <<"D","e","s","k","t","o","p",".","i","n","i">>
F_XyDash == <<"x","y","_","9","-","x",".","p","d","f">>
F_Dash == <<"-","x",".","p","d","f">>
F_Garden == <<"G","a","r","d","e","n","-","C","a","r","e","_","7",".","p","d","f">>
F_XyManual == <<"X","Y","9"," ","m","a","n","u","a","l",".","b","r","o","s",".","p","d","f">>

\* a file that may lie alone in a source folder when the program starts
Singles ==
    { <<F_ABC, 1>>, <<F_ABC, 2>>, <<F_ABC, 3>>, <<F_ABC, 4>>, <<F_ABC, 5>>,
      <<F_Scan, 6>>, <<F_Scan, 7>>, <<F_Scan, 8>>, <<F_Scan, 9>>, <<F_Scan, 10>>,
      <<F_Receipt, 5>>, <<F_Notes, 1>>, <<F_DesktopIni, 8>> }

\* files that may lie together in a source folder: names equal up to case,
\* and a name that already carries the duplicate marker
Groups ==
    { {<<F_ABC, 1>>, <<F_abc, 1>>},
      {<<F_ABC, 1>>, <<F_abc, 2>>},
      {<<F_ABC, 1>>, <<F_DoubleABC, 4>>},
      {<<F_abc, 1>>, <<F_DoubleABC, 1>>},
      {<<F_Notes, 1>>, <<F_Scan, 1>>},
      {<<F_ABC, 1>>, <<F_abc, 1>>, <<F_Abc, 1>>},
      {<<F_ABC, 1>>, <<F_abc, 1>>, <<F_DoubleABC, 4>>} }

\* the documents tried in the folders whose files are not read
FewDocs == {1, 2, 4, 5, 9}

Scenes == {{a} : a \in Singles} \cup Groups

\* folders in which earlier runs may have left files named like F_ABC
OccupiedDirs ==
    { DEST_FOLDER \o <<PM_Acme, N_Streamline>>,
      DEST_FOLDER_ATTEMPT,
      COULD_NOT_MOVE_FOLDER }

\* the n-th name an earlier collision produced: name, name (1), name (2)
VariantName(name, n) ==
    IF n = 0 THEN name
    ELSE SplitExt(name)[1] \o <<" ", "(">> \o Decimal(n) \o <<")">> \o SplitExt(name)[2]

OccupiedName(dir) == IF dir = COULD_NOT_MOVE_FOLDER THEN UNMOVED_PREFIX \o F_ABC ELSE F_ABC

\* the three calls of the entry point (lines 504-507), which are those of
\* Main_Script.main (lines 114-116), in their order
PassArgs ==
    << [src |-> SRC_FOLDER_ATTEMPT, dest |-> DEST_FOLDER_ATTEMPT],
       [src |-> SRC_FOLDER_FAILED,  dest |-> DEST_FOLDER_FAILED],
       [src |-> SRC_FOLDER,         dest |-> DEST_FOLDER] >>

\* no function is run on its own
NoCall == [fn |-> "none"]

EmptyCur ==
    [listed |-> <<>>, filename |-> <<>>, file_path |-> NoPath, doc |-> 0,
     settled |-> FALSE, file_hash |-> NoHash, seen |-> FALSE,
     match_path |-> NoPath, sib_error |-> FALSE, marked |-> FALSE, kind |-> "none",
     dest_path |-> NoPath, attempt |-> 0, calls |-> 0, preFs |-> <<>>,
     final |-> NoPath, ok |-> FALSE, recorded |-> FALSE,
     state |-> "Running", why |-> "none", nf |-> 0, mode |-> "none"]

\* all orders in which os.listdir may return the names S
Orders(S) ==
    {f \in [1..Cardinality(S) -> S] : \A i, j \in 1..Cardinality(S) : f[i] = f[j] => i = j}

Init ==
    /\ \E k \in 1..Len(PassArgs), S \in Scenes, n \in 0..MaxOccupied,
          known \in {"none", "stale", "fresh"} :
          /\ n > 0 => S = {<<F_ABC, 1>>}
          /\ known # "none" => \E a \in S : a[2] = 1
          /\ Cardinality(S) = 2 => PassArgs[k].src # SRC_FOLDER_FAILED
          /\ Cardinality(S) > 2 => PassArgs[k].src = SRC_FOLDER /\ known = "fresh"
          /\ PassArgs[k].src # SRC_FOLDER => \A a \in S : a[2] \in FewDocs
          /\ LET srcFiles == [p \in {Join(PassArgs[k].src, a[1]) : a \in S} |->
                                (CHOOSE a \in S : a[1] = p[2])[2]]
                 occ == [p \in {Join(d, VariantName(OccupiedName(d), j)) :
                                   d \in OccupiedDirs, j \in 0..(n - 1)} |-> 8]
             IN  fs = srcFiles @@ occ
          /\ dirs = UNION {Ancestors(d) :
                       d \in {SRC_FOLDER_ATTEMPT, SRC_FOLDER_FAILED, SRC_FOLDER,
                              DEST_FOLDER_ATTEMPT, UNASSIGNED_PLAN_MANAGER_FOLDER,
                              COULD_NOT_MOVE_FOLDER}
                         \cup (IF n > 0 THEN OccupiedDirs ELSE {})}
          /\ ledger = [h \in (IF known # "none" THEN {_file_hash(1)} ELSE {}) |->
                          [size |-> DOCS[1].size, first_seen_utc |-> 0,
                           last_seen_utc |-> IF known = "fresh" THEN TickDays ELSE 0,
                           last_path |-> Join(DEST_FOLDER_ATTEMPT, F_ABC)]]
    /\ now = DupWindowDays
    /\ CLIENT_RECORDS = _build_client_records(ProfileRows)
    /\ pc = "idle"
    /\ src_folder = <<>>
    /\ dest_folder = <<>>
    /\ files = <<>>
    /\ idx = 1
    /\ cur = EmptyCur
    /\ results = <<>>
    /\ pass0 = [fs |-> <<>>, ledger |-> <<>>, now |-> 0]
    /\ passes = 0
    /\ faults = 0
    /\ taken = {}
    /\ call = NoCall
    /\ recorded = <<>>
    /\ NoGui

\* ------------------------------------------------------------------------
\* Actions
\* ------------------------------------------------------------------------
\* whether the environment may fail once more during the iteration c
MayFail(c) == IF faults + c.nf < MaxFaults THEN BOOLEAN ELSE {FALSE}

\* c after n more environment faults
Hit(c, n) == [c EXCEPT !.nf = @ + n]

Flag(b) == IF b THEN 1 ELSE 0

\* move_files lines 332-340: list the regular files of the source folder;
\* with nothing listed (or no source folder) the call returns at once.  The
\* passes follow each other in the order of the entry point.
StartPass ==
    /\ pc = "idle"
    /\ passes < MaxPasses
    /\ LET a == PassArgs[(passes % Len(PassArgs)) + 1]
           listing == ListedFiles(fs, dirs, a.src)
       IN  /\ src_folder' = a.src
           /\ dest_folder' = a.dest
           /\ IF listing # {}
              THEN /\ \E order \in Orders(listing) : files' = order
                   /\ pc' = "loop"
                   /\ UNCHANGED passes
              ELSE /\ files' = <<>>
                   /\ pc' = "idle"
                   /\ passes' = passes + 1
    /\ pass0' = [fs |-> fs, ledger |-> ledger, now |-> now]
    /\ results' = <<>>
    /\ cur' = EmptyCur
    /\ idx' = 1
    /\ UNCHANGED <<guiVars, call, recorded, fs, dirs, ledger, now, CLIENT_RECORDS, faults, taken>>

\* the iteration ends (continue, or the end of the loop body)
Finish(c, st, why, fs2, dirs2, led2) ==
    /\ cur' = [c EXCEPT !.state = st, !.why = why]
    /\ results' = Append(results, [c EXCEPT !.state = st, !.why = why])
    /\ fs' = fs2
    /\ dirs' = dirs2
    /\ ledger' = led2
    /\ idx' = idx + 1
    /\ pc' = "loop"
    /\ faults' = faults + c.nf
    /\ taken' = IF st = "SkippedNotFound" THEN taken \cup {c.file_path} ELSE taken
    /\ UNCHANGED <<guiVars, call, recorded, now, CLIENT_RECORDS, src_folder, dest_folder, files, pass0, passes>>

\* an exception leaves move_files: nothing in the loop body catches it
Raise(c, why, fs2, dirs2) ==
    /\ cur' = [c EXCEPT !.state = "Raised", !.why = why]
    /\ results' = Append(results, [c EXCEPT !.state = "Raised", !.why = why])
    /\ fs' = fs2
    /\ dirs' = dirs2
    /\ pc' = "raised"
    /\ faults' = faults + c.nf
    /\ UNCHANGED <<guiVars, call, recorded, ledger, now, CLIENT_RECORDS, src_folder, dest_folder, files, idx,
                   pass0, passes, taken>>

\* safe_move lines 290-298, called with src = c.file_path: the source check
\* and os.makedirs.  The file may have been taken away since it was listed.
SafeMoveEnter(c, dest_path, fs2) ==
    \E vanish \in MayFail(c) :
        LET fs3 == IF vanish THEN RemoveFile(fs2, c.file_path) ELSE fs2
            c3 == [Hit(c, Flag(vanish)) EXCEPT !.dest_path = dest_path, !.preFs = fs3,
                                               !.calls = 1]
        IN  IF ~SourceFound(fs3, dirs, c.file_path)
            THEN Finish(c3, "SkippedNotFound", "not_found", fs3, dirs, ledger)
            ELSE \E mkdirFail \in MayFail(c3) :
                   IF mkdirFail
                   THEN Finish(Hit(c3, 1), "LeftInSource", "makedirs_error", fs3, dirs,
                               ledger)
                   ELSE /\ cur' = c3
                        /\ fs' = fs3
                        /\ dirs' = dirs \cup Ancestors(dest_path[1])
                        /\ pc' = "move"
                        /\ UNCHANGED <<guiVars, call, recorded, ledger, now, CLIENT_RECORDS, src_folder,
                                       dest_folder, files, idx, results, pass0, passes,
                                       faults, taken>>

\* lines 381-498 up to the call of safe_move
Classify(c, fs2) ==
    \E ocrFail \in MayFail(c) :
        LET d == Destination(src_folder, dest_folder, c.filename, c.doc, ~ocrFail,
                             CLIENT_RECORDS)
            c2 == [c EXCEPT !.kind = d.kind]
        IN  IF d.dest_path = NoPath
            THEN /\ ocrFail <=> d.kind = "ocr_error"
                 /\ Finish(Hit(c2, Flag(ocrFail)), "LeftInSource", d.kind, fs2, dirs, ledger)
            ELSE /\ ~ocrFail
                 /\ SafeMoveEnter(c2, d.dest_path, fs2)

\* lines 359-379: the duplicate check and the rename with the marker.  A
\* sibling whose bytes cannot be read is passed over (lines 229-233).
DuplicateCheck(c) ==
    IF ~HasHash(c.file_hash)
    THEN Classify(c, fs)
    ELSE \E dbFail \in MayFail(c) :
           IF dbFail
           THEN Raise(Hit(c, 1), "ledger_query_error", fs, dirs)
           ELSE LET seen == _db_seen_recently(ledger, c.file_hash, DupWindowDays, now)
                    sib == DoubleMatches(ledger, fs, dirs, src_folder, c.file_path,
                                         c.filename, c.file_hash, now)
                    c1 == [c EXCEPT !.seen = seen]
                IN  IF sib = {}
                    THEN Classify(c1, fs)
                    ELSE \E match_path \in sib, readFail \in MayFail(c),
                            renameFail \in MayFail(c) :
                           LET new_path == DoublePath(fs, dirs, src_folder, c.filename)
                               c2 == [c1 EXCEPT !.match_path = match_path]
                           IN  IF readFail
                               THEN /\ ~renameFail
                                    /\ Classify([Hit(c1, 1) EXCEPT !.sib_error = TRUE], fs)
                               ELSE IF renameFail
                               THEN Classify(Hit(c2, 1), fs)
                               ELSE Classify([c2 EXCEPT !.marked = TRUE,
                                                        !.filename = new_path[2],
                                                        !.file_path = new_path],
                                             OsRename(fs, c.file_path, new_path))

\* one iteration of `for filename in files`, up to the call of safe_move
Iterate ==
    /\ pc = "loop"
    /\ idx <= Len(files)
    /\ LET listed == files[idx]
           file_path == Join(src_folder, listed)
           c0 == [EmptyCur EXCEPT !.listed = listed, !.filename = listed,
                                  !.file_path = file_path]
       IN  IF ~Exists(fs, dirs, file_path)
           THEN Finish(c0, "SkippedMissing", "missing", fs, dirs, ledger)
           ELSE \E obs \in SettleObs(DOCS[fs[file_path]].size) :
                  LET unread == \E i \in 1..Len(obs) : obs[i] = SizeError
                      c1 == Hit(c0, Flag(unread))
                      settled == _wait_for_settle(obs, SettleChecks)
                  IN  /\ ~unread \/ TRUE \in MayFail(c0)
                      /\ IF SkipsUnsettled(settled)
                         THEN Finish(c1, "NotSettled", "not_settled", fs, dirs, ledger)
                         ELSE \E hashFail \in MayFail(c1) :
                                DuplicateCheck(
                                  [Hit(c1, Flag(hashFail)) EXCEPT
                                     !.doc = fs[file_path],
                                     !.settled = settled,
                                     !.file_hash = IF hashFail THEN NoHash
                                                   ELSE _file_hash(fs[file_path])])

\* `if safe_move(...): if file_hash: _db_record(dest_path, file_hash)` after
\* safe_move returned True
AfterMove(c, fs2) ==
    IF ~HasHash(c.file_hash)
    THEN Finish(c, "Moved", "moved", fs2, dirs, ledger)
    ELSE \E dbFail \in MayFail(c) :
           IF dbFail
           THEN IF c.kind = "attempt"
                THEN Raise(Hit(c, 1), "ledger_write_error", fs2, dirs)
                ELSE Finish(Hit(c, 1), "Moved", "ledger_write_error", fs2, dirs, ledger)
           ELSE Finish([c EXCEPT !.recorded = TRUE], "Moved", "moved", fs2, dirs,
                       _db_record(ledger, fs2, c.dest_path, c.file_hash, now))

\* what shutil.move can do in the turn of the loop that follows cur: a
\* fault of the environment lasts, so a later failure of the same call is of
\* the kind of the first
TurnOutcomes(c) == IF c.mode = "none" THEN MoveOutcomes ELSE {"ok", c.mode}

\* one turn of the while loop of safe_move (lines 299-325), with the
\* quarantine fallback and the caller's ledger write when it returns.  The
\* failed attempts of one call count as one fault of the environment.
MoveAttempt ==
    /\ pc = "move"
    /\ \E outcome \in TurnOutcomes(cur) :
         LET target == MoveTarget(fs, dirs, cur.dest_path)
             fs2 == ShutilMove(fs, cur.file_path, target, outcome)
             attempt == cur.attempt + 1
             c == [cur EXCEPT !.calls = @ + 1,
                              !.mode = outcome,
                              !.nf = IF cur.attempt = 0 THEN @ + 1 ELSE @]
         IN  IF outcome = "ok"
             THEN /\ SafeMoveReturns("moved")
                  /\ AfterMove([cur EXCEPT !.ok = TRUE, !.final = target], fs2)
             ELSE /\ cur.attempt > 0 \/ TRUE \in MayFail(cur)
                  /\ IF RetriesExhausted(attempt, RETRIES)
                     THEN LET quarantine_dest == QuarantineDest(fs2, dirs, cur.file_path)
                          IN  \E q \in TurnOutcomes(c) :
                                LET cq == [c EXCEPT !.attempt = attempt,
                                                    !.final = IF q = "fail" THEN NoPath
                                                              ELSE quarantine_dest]
                                    fsq == QuarantineMove(fs2, cur.file_path,
                                                          quarantine_dest, q)
                                    why == IF q = "ok" THEN "quarantined"
                                           ELSE IF q = "fail" THEN "quarantine_failed"
                                           ELSE "quarantine_partial"
                                IN  IF SafeMoveReturns(why)
                                    THEN AfterMove(cq, fsq)
                                    ELSE Finish(cq,
                                                IF q = "ok" THEN "Quarantined"
                                                ELSE "LeftInSource",
                                                why, fsq, dirs, ledger)
                     ELSE /\ cur' = [c EXCEPT !.attempt = attempt]
                          /\ fs' = fs2
                          /\ UNCHANGED <<guiVars, call, recorded, dirs, ledger, now, CLIENT_RECORDS, pc,
                                         src_folder, dest_folder, files, idx, results,
                                         pass0, passes, faults, taken>>

\* the for loop is over: move_files returns
EndPass ==
    /\ pc = "loop"
    /\ idx > Len(files)
    /\ pc' = "idle"
    /\ passes' = passes + 1
    /\ UNCHANGED <<guiVars, call, recorded, fs, dirs, ledger, now, CLIENT_RECORDS, src_folder, dest_folder,
                   files, idx, cur, results, pass0, faults, taken>>

\* the exception that left move_files ends the round: the entry point
\* (lines 504-507) ends with it, and the polling loop of Main_Script.main
\* (lines 125-135) catches it and starts over.  The calls that would have
\* followed in the round are not made; the next call is the first of the
\* next round.
CallerCatches ==
    /\ pc = "raised"
    /\ pc' = "idle"
    /\ passes' = passes + (Len(PassArgs) - (passes % Len(PassArgs)))
    /\ UNCHANGED <<guiVars, call, recorded, fs, dirs, ledger, now, CLIENT_RECORDS, src_folder, dest_folder,
                   files, idx, cur, results, pass0, faults, taken>>

\* the sync client or a user takes a listed file away before its turn
FileVanishes ==
    /\ pc = "loop"
    /\ faults < MaxFaults
    /\ \E j \in idx..Len(files) :
         /\ IsFile(fs, Join(src_folder, files[j]))
         /\ fs' = RemoveFile(fs, Join(src_folder, files[j]))
         /\ taken' = taken \cup {Join(src_folder, files[j])}
    /\ faults' = faults + 1
    /\ UNCHANGED <<guiVars, call, recorded, dirs, ledger, now, CLIENT_RECORDS, pc, src_folder, dest_folder,
                   files, idx, cur, results, pass0, passes>>

\* time passes between two rounds of passes
Tick ==
    /\ pc = "idle"
    /\ passes > 0
    /\ passes % Len(PassArgs) = 0
    /\ now < MaxNow
    /\ now' = now + TickDays
    /\ UNCHANGED <<guiVars, call, recorded, fs, dirs, ledger, CLIENT_RECORDS, pc, src_folder, dest_folder,
                   files, idx, cur, results, pass0, passes, faults, taken>>

Next ==
    \/ StartPass
    \/ Iterate
    \/ MoveAttempt
    \/ EndPass
    \/ CallerCatches
    \/ FileVanishes
    \/ Tick

Spec == Init /\ [][Next]_vars

\* ------------------------------------------------------------------------
\* Single functions run on their own.  The variables of move_files keep the
\* values given here; call holds the arguments and the result of the call.
\* ------------------------------------------------------------------------
programVars == <<fs, dirs, CLIENT_RECORDS, pc, src_folder, dest_folder, files, idx,
                 cur, results, pass0, passes, faults, taken>>

\* move_files is not running; fsys are the files on disk
Alone(fsys) ==
    /\ fs = fsys
    /\ dirs = UNION {Ancestors(p[1]) : p \in DOMAIN fsys}
    /\ pc = "alone"
    /\ src_folder = <<>>
    /\ dest_folder = <<>>
    /\ files = <<>>
    /\ idx = 1
    /\ cur = EmptyCur
    /\ results = <<>>
    /\ pass0 = [fs |-> <<>>, ledger |-> <<>>, now |-> 0]
    /\ passes = 0
    /\ faults = 0
    /\ taken = {}
    /\ NoGui

\* ---- the duplicate ledger: _db_init, _db_record, _db_seen_recently ------
MaxRecords == 3

\* the hashes and the paths the ledger is called with; the first path holds
\* a file, the second does not (os.path.getsize raises and size is None)
LedgerHashes == {_file_hash(1), _file_hash(2)}
LedgerPaths == {Join(DEST_FOLDER_ATTEMPT, F_ABC), Join(RECEIPTS_FOLDER, F_Receipt)}
LedgerDays == {DupWindowDays, TickDays}

\* _db_init on a new database: the table is empty
LedgerInit ==
    /\ Alone((Join(DEST_FOLDER_ATTEMPT, F_ABC) :> 1))
    /\ CLIENT_RECORDS = _build_client_records(ProfileRows)
    /\ ledger = <<>>
    /\ now = 0
    /\ call = NoCall
    /\ recorded = <<>>

\* a call _db_record(path, file_hash)
DbRecord ==
    /\ Len(recorded) < MaxRecords
    /\ \E h \in LedgerHashes, p \in LedgerPaths :
         /\ ledger' = _db_record(ledger, fs, p, h, now)
         /\ recorded' = Append(recorded, [file_hash |-> h, path |-> p, at |-> now])
         /\ call' = [fn |-> "_db_record", file_hash |-> h, path |-> p]
    /\ UNCHANGED <<now, guiVars, programVars>>

\* a call _db_seen_recently(file_hash, days)
DbSeenRecently ==
    /\ \E h \in LedgerHashes, days \in LedgerDays :
         call' = [fn |-> "_db_seen_recently", file_hash |-> h, days |-> days,
                  at |-> now, ret |-> _db_seen_recently(ledger, h, days, now)]
    /\ UNCHANGED <<ledger, now, recorded, guiVars, programVars>>

\* datetime.utcnow() moves on between two calls
LedgerTick ==
    /\ now < MaxNow
    /\ now' = now + TickDays
    /\ UNCHANGED <<ledger, call, recorded, guiVars, programVars>>

LedgerNext ==
    \/ DbRecord
    \/ DbSeenRecently
    \/ LedgerTick

LedgerSpec == LedgerInit /\ [][LedgerNext]_vars

\* ---- the settle detector: _wait_for_settle ------------------------------
MaxSize == 2

\* what os.path.getsize can return or do at each of the checks * 3 polls
SettleSamples == [1..(SettleChecks * 3) -> (1..MaxSize) \cup {SizeError}]

SettleInit ==
    /\ Alone(<<>>)
    /\ CLIENT_RECORDS = _build_client_records(ProfileRows)
    /\ ledger = <<>>
    /\ now = 0
    /\ recorded = <<>>
    /\ \E obs \in SettleSamples :
         call = [fn |-> "_wait_for_settle", obs |-> obs, ret |-> "pending"]

\* the call _wait_for_settle(file_path, checks=3, delay=0.8) of move_files
SettleCall ==
    /\ call.fn = "_wait_for_settle"
    /\ call.ret = "pending"
    /\ call' = [call EXCEPT !.ret = IF _wait_for_settle(call.obs, SettleChecks)
                                     THEN "True" ELSE "False"]
    /\ UNCHANGED <<ledger, now, recorded, guiVars, programVars>>

SettleNext == SettleCall

SettleSpec == SettleInit /\ [][SettleNext]_vars

\* ---- safe_move on its own, with the caller's `if safe_move(...)` ---------
\* the calls examined: the Attempt Code call (line 387) and the call of the
\* PDF branch (line 496), for ABC123_invoice.pdf
SafeMoveCalls ==
    { [src |-> SRC_FOLDER_ATTEMPT, dest |-> DEST_FOLDER_ATTEMPT, kind |-> "attempt",
       dest_path |-> Join(DEST_FOLDER_ATTEMPT, F_ABC)],
      [src |-> SRC_FOLDER, dest |-> DEST_FOLDER, kind |-> "routed",
       dest_path |-> Join(DEST_FOLDER \o <<PM_Acme, N_Streamline>>, F_ABC)] }

\* the moment safe_move is called: the source file may be gone, the
\* destination and the quarantine folder may hold n files of its name, and
\* its hash may have failed
SafeMoveInit ==
    \E a \in SafeMoveCalls, present \in BOOLEAN, hashed \in BOOLEAN, n \in 0..MaxOccupied :
        LET file_path == Join(a.src, F_ABC)
            occ == [p \in {Join(d, VariantName(OccupiedName(d), j)) :
                              d \in OccupiedDirs, j \in 0..(n - 1)} |-> 8]
        IN  /\ fs = (IF present THEN (file_path :> 1) ELSE <<>>) @@ occ
            /\ dirs = UNION {Ancestors(d) :
                         d \in {SRC_FOLDER_ATTEMPT, SRC_FOLDER_FAILED, SRC_FOLDER,
                                UNASSIGNED_PLAN_MANAGER_FOLDER, COULD_NOT_MOVE_FOLDER}
                           \cup (IF n > 0 THEN OccupiedDirs ELSE {})}
            /\ src_folder = a.src
            /\ dest_folder = a.dest
            /\ files = <<F_ABC>>
            /\ cur = [EmptyCur EXCEPT !.listed = F_ABC, !.filename = F_ABC,
                                      !.file_path = file_path, !.doc = 1,
                                      !.settled = TRUE,
                                      !.file_hash = IF hashed THEN _file_hash(1)
                                                    ELSE NoHash,
                                      !.kind = a.kind, !.dest_path = a.dest_path]
            /\ pass0 = [fs |-> (file_path :> 1) @@ occ, ledger |-> <<>>,
                        now |-> DupWindowDays]
    /\ ledger = <<>>
    /\ now = DupWindowDays
    /\ CLIENT_RECORDS = _build_client_records(ProfileRows)
    /\ pc = "call"
    /\ idx = 1
    /\ results = <<>>
    /\ passes = 0
    /\ faults = 0
    /\ taken = {}
    /\ call = NoCall
    /\ recorded = <<>>
    /\ NoGui

\* safe_move is entered (lines 290-298)
SafeMoveCall ==
    /\ pc = "call"
    /\ SafeMoveEnter(cur, cur.dest_path, fs)

SafeMoveNext ==
    \/ SafeMoveCall
    \/ MoveAttempt

\* time.sleep(wait_secs) returns and shutil.move returns or raises: the loop
\* takes its next turn
SafeMoveSpec == SafeMoveInit /\ [][SafeMoveNext]_vars /\ WF_vars(SafeMoveNext)

\* ---- the routing of one file on its own (lines 381-498) ------------------
\* the names and the source folders the routing is run on
ClassifyNames == {F_ABC, F_Scan, F_Garden, F_XyManual, F_Receipt, F_Notes}

ClassifyInit ==
    /\ Alone(<<>>)
    /\ CLIENT_RECORDS = _build_client_records(ProfileRows)
    /\ ledger = <<>>
    /\ now = 0
    /\ recorded = <<>>
    /\ \E a \in {PassArgs[2], PassArgs[3]}, filename \in ClassifyNames, doc \in DocIds :
         call = [fn |-> "route", src |-> a.src, dest |-> a.dest, filename |-> filename,
                 doc |-> doc, done |-> FALSE, ret |-> Decision("none", NoPath)]

\* the file is routed; text extraction raises nothing
RouteCall ==
    /\ call.fn = "route"
    /\ ~call.done
    /\ call' = [call EXCEPT !.done = TRUE,
                            !.ret = Destination(call.src, call.dest, call.filename,
                                                call.doc, TRUE, CLIENT_RECORDS)]
    /\ UNCHANGED <<ledger, now, recorded, guiVars, programVars>>

ClassifyNext == RouteCall

ClassifySpec == ClassifyInit /\ [][ClassifyNext]_vars

\* ---- the plan-manager lookup on its own ---------------------------------
MaxRows == 2

\* rows Client_Profiles.csv may hold: a code that is the beginning of
\* another, a code written with a separator, a code without letter or digit,
\* a blank code, a blank plan manager
RowPool ==
    { [code |-> C_ABC123, plan_manager |-> PM_Acme],
      [code |-> <<"a","b","c">>, plan_manager |-> PM_Beta],
      [code |-> <<"X","Y","-","9">>, plan_manager |-> <<>>],
      [code |-> C_XY9, plan_manager |-> PM_Beta \o <<" ">>],
      [code |-> <<"-">>, plan_manager |-> PM_Acme],
      [code |-> <<" ">>, plan_manager |-> PM_Beta] }

Registries == UNION {[1..n -> RowPool] : n \in 0..MaxRows}

LookupNames == {F_ABC, F_abc, F_Scan, F_Receipt, F_DoubleABC, F_XyDash, F_Dash}

\* the registry is built at import (line 127)
LookupInit ==
    /\ Alone(<<>>)
    /\ \E rows \in Registries : CLIENT_RECORDS = _build_client_records(rows)
    /\ ledger = <<>>
    /\ now = 0
    /\ recorded = <<>>
    /\ \E filename \in LookupNames :
         call = [fn |-> "_lookup_plan_manager", filename |-> filename, done |-> FALSE,
                 plan_manager |-> <<>>, plan_manager_base |-> <<>>]

\* lines 381-382 of move_files
LookupCall ==
    /\ call.fn = "_lookup_plan_manager"
    /\ ~call.done
    /\ LET plan_manager == _lookup_plan_manager(CLIENT_RECORDS, call.filename)
       IN  call' = [call EXCEPT !.done = TRUE,
                                !.plan_manager = plan_manager,
                                !.plan_manager_base = _plan_manager_root(plan_manager)]
    /\ UNCHANGED <<ledger, now, recorded, guiVars, programVars>>

LookupNext == LookupCall

LookupSpec == LookupInit /\ [][LookupNext]_vars

\* ---- the GUI and the polling loop of Main_Script.main --------------------
MaxThreads == 2

\* the parameters of pytesseract_main (pytesseractBBKMSCRIPT.py line 439) and
\* the arguments main() calls it with (Main_Script.py line 111)
PytesseractMainParams == 3
PytesseractMainArgs == 2

\* max_retries of main()
MAX_RETRIES == 3
MAX_RETRIES_RESET == 5

\* a call with `given` positional arguments of a function of `params`
\* parameters without defaults raises TypeError unless the numbers agree
RaisesTypeError(given, params) == given # params

\* the stages of one iteration of the loop, in the order of lines 90-116
STAGES == <<"save_attachments", "forward_emails", "convert_files", "pytesseract_main",
            "move_attempt", "move_failed", "move_renamed">>

\* a thread created by run_in_thread: it is about to test the stop flag
NewThread == [pc |-> "while", done |-> <<>>, raised |-> "none", max_retries |-> MAX_RETRIES]

\* ThreadAlive that never finds a running thread
ThreadAlive_Never(thread) == FALSE

\* `self.script_thread and self.script_thread.is_alive()`
ThreadAlive(thread) == thread # 0 /\ threads[thread].pc # "dead"

MainInit ==
    /\ fs = <<>>
    /\ dirs = {}
    /\ pc = "alone"
    /\ src_folder = <<>>
    /\ dest_folder = <<>>
    /\ files = <<>>
    /\ idx = 1
    /\ cur = EmptyCur
    /\ results = <<>>
    /\ pass0 = [fs |-> <<>>, ledger |-> <<>>, now |-> 0]
    /\ passes = 0
    /\ faults = 0
    /\ taken = {}
    /\ CLIENT_RECORDS = _build_client_records(ProfileRows)
    /\ ledger = <<>>
    /\ now = 0
    /\ call = NoCall
    /\ recorded = <<>>
    /\ NoGui

\* App.run_in_thread (GUI.py lines 515-533)
run_in_thread ==
    /\ IF ThreadAlive(script_thread)
       THEN UNCHANGED guiVars
       ELSE /\ Len(threads) < MaxThreads
            /\ stop_flag' = FALSE
            /\ _stop_requested' = FALSE
            /\ threads' = Append(threads, NewThread)
            /\ script_thread' = Len(threads) + 1
            /\ after' = after + 1
    /\ UNCHANGED <<ledger, now, call, recorded, programVars>>

\* App.stop_main (GUI.py lines 535-545)
stop_main ==
    /\ IF script_thread = 0 \/ ~ThreadAlive(script_thread)
       THEN UNCHANGED guiVars
       ELSE /\ stop_flag' = TRUE
            /\ _stop_requested' = TRUE
            /\ UNCHANGED <<script_thread, threads, after>>
    /\ UNCHANGED <<ledger, now, call, recorded, programVars>>

\* App.check_script_finished (GUI.py lines 458-478), run by the event loop
\* 100 ms after it was scheduled
check_script_finished ==
    /\ after > 0
    /\ IF script_thread = 0
       THEN /\ after' = after - 1
            /\ UNCHANGED <<script_thread, stop_flag, _stop_requested, threads>>
       ELSE IF ~ThreadAlive(script_thread)
       THEN /\ script_thread' = 0
            /\ stop_flag' = FALSE
            /\ _stop_requested' = FALSE
            /\ after' = after - 1
            /\ UNCHANGED threads
       ELSE UNCHANGED guiVars
    /\ UNCHANGED <<ledger, now, call, recorded, programVars>>

\* the thread t goes to `to`; the other threads stay where they are
Go(t, to) ==
    /\ threads' = [threads EXCEPT ![t] = to]
    /\ UNCHANGED <<script_thread, stop_flag, _stop_requested, after>>
    /\ UNCHANGED <<ledger, now, call, recorded, programVars>>

\* the stage `stage` of the thread t returns without raising
Completes(t, stage, next) ==
    Go(t, [threads[t] EXCEPT !.pc = next, !.done = Append(@, stage)])

\* the stage raises an Exception: lines 125-135 catch it
Raises(t, stage) ==
    Go(t, [threads[t] EXCEPT !.pc = "except", !.raised = stage])

\* Main_Script.main line 88: `while not stop_flag.is_set()`
LoopTest ==
    \E t \in 1..Len(threads) :
        /\ threads[t].pc = "while"
        /\ Go(t, [threads[t] EXCEPT !.pc = IF stop_flag THEN "finally" ELSE STAGES[1],
                                    !.done = <<>>, !.raised = "none"])

\* line 91: save_attachments_from_outlook_folder returns, raises, or raises
\* AuthConfigurationError, which leaves the loop (lines 121-124)
SaveAttachments ==
    \E t \in 1..Len(threads) :
        /\ threads[t].pc = STAGES[1]
        /\ \/ Completes(t, STAGES[1], STAGES[2])
           \/ Raises(t, STAGES[1])
           \/ Go(t, [threads[t] EXCEPT !.pc = "finally", !.raised = "auth"])

\* lines 94-105: forward_emails_with_categories
ForwardEmails ==
    \E t \in 1..Len(threads) :
        /\ threads[t].pc = STAGES[2]
        /\ \/ Completes(t, STAGES[2], STAGES[3])
           \/ Raises(t, STAGES[2])

\* line 108: convert_files_to_pdf
ConvertFiles ==
    \E t \in 1..Len(threads) :
        /\ threads[t].pc = STAGES[3]
        /\ \/ Completes(t, STAGES[3], STAGES[4])
           \/ Raises(t, STAGES[3])

\* line 111: pytesseract_main(updated_saved_attachments, email_file_map).
\* The call raises TypeError before the function is entered, so lines 114-119
\* (the three calls of move_files and time.sleep(5)) are not reached.
RenameStage ==
    \E t \in 1..Len(threads) :
        /\ threads[t].pc = STAGES[4]
        /\ RaisesTypeError(PytesseractMainArgs, PytesseractMainParams)
        /\ Raises(t, STAGES[4])

\* lines 125-135: the handler counts the retries down and sleeps retry_delay
ExceptHandler ==
    \E t \in 1..Len(threads) :
        /\ threads[t].pc = "except"
        /\ Go(t, [threads[t] EXCEPT !.pc = "while",
                                    !.max_retries = IF @ - 1 <= 0 THEN MAX_RETRIES_RESET
                                                    ELSE @ - 1])

\* lines 136-138 and GUI.py lines 554-565: main() returns, run_main ends and
\* the thread is no longer alive
ThreadExit ==
    \E t \in 1..Len(threads) :
        /\ threads[t].pc = "finally"
        /\ Go(t, [threads[t] EXCEPT !.pc = "dead"])

MainNext ==
    \/ run_in_thread
    \/ stop_main
    \/ check_script_finished
    \/ LoopTest
    \/ SaveAttachments
    \/ ForwardEmails
    \/ ConvertFiles
    \/ RenameStage
    \/ ExceptHandler
    \/ ThreadExit

MainSpec == MainInit /\ [][MainNext]_vars

\* ------------------------------------------------------------------------
\* Properties
\* ------------------------------------------------------------------------
\* the iteration held in cur is over
Finished == cur.state # "Running"

\* where move_files left the file of the finished iteration r: a file whose
\* move succeeded is moved even when the ledger write after it raised, and a
\* file whose ledger query raised is still where it was
EndState(r) ==
    IF r.ok THEN "Moved"
    ELSE IF r.state = "Raised" THEN "LeftInSource"
    ELSE r.state

\* the paths holding other bytes than before the call of safe_move of cur
ChangedSinceCall == {p \in DOMAIN fs : p \notin DOMAIN cur.preFs \/ fs[p] # cur.preFs[p]}

\* the highest counter a name can carry: the files of earlier runs and the
\* copies the failed attempts of the calls can have left take the lower ones
VariantLimit == (MaxOccupied + 1) + MaxFaults * (RETRIES + 1) + 1

\* the names name, name (1), name (2), ... as far as the disk can hold them
NumberedVariants(path) == {Join(path[1], VariantName(path[2], n)) : n \in 0..VariantLimit}

LeftReasons ==
    {"ignored", "ocr_error", "makedirs_error", "quarantine_failed",
     "quarantine_partial", "ledger_query_error"}

C2_Original ==
    (Finished /\ cur.ok) =>
        /\ cur.file_path \notin DOMAIN fs
        /\ ChangedSinceCall = {cur.final}
        /\ cur.final \in NumberedVariants(cur.dest_path)

\* ---- C3 ----------------------------------------------------------------
\* lower-cased, with the space characters removed
Squash(text) == SelectSeq(Lower(text), LAMBDA c : c # " ")

\* lower-cased, with all white space removed
SquashAll(text) == SelectSeq(Lower(text), LAMBDA c : c \notin WhiteSpace)

\* move_files ran text recognition over the pages of the file of r
TextRecognised(r) == r.kind \in {"ndis", "failed", "routed"}

HasNdisMarker(doc) ==
    \E k \in 1..Len(DOCS[doc].pages) : Contains(Squash(DOCS[doc].pages[k]), NDIS_TOKEN)

\* the file of r is a PDF of the main or the Failed source folder that the
\* receipts branch does not take and that renders
ReachesOcr(r) ==
    /\ r.kind # "none"
    /\ src_folder \in {SRC_FOLDER, SRC_FOLDER_FAILED}
    /\ EndsWith(Lower(r.filename), PDF_EXT)
    /\ ~(Contains(Lower(r.filename), RECEIPT_WORD) /\ src_folder = SRC_FOLDER)
    /\ DOCS[r.doc].renders

AliasesOnPage(text) ==
    {i \in 1..Len(VENDORS) : Contains(Squash(text), Squash(VENDORS[i].vendor))}

AliasesAnySpacing(text) ==
    {i \in 1..Len(VENDORS) : Contains(SquashAll(text), SquashAll(VENDORS[i].vendor))}

\* the category subfolder declared for the vendor at place i of the table
CategoryFolderName(i) ==
    CASE VENDORS[i].folder_type = 1 -> N_Streamline
      [] VENDORS[i].folder_type = 2 -> N_ManualLodgement
      [] VENDORS[i].folder_type = 3 -> N_AT
      [] OTHER -> VENDORS[i].vendor

\* the root folder of the plan manager the file name resolves to
PlanRootOf(filename) == _plan_manager_root(_lookup_plan_manager(CLIENT_RECORDS, filename))

VendorPages(doc) == {k \in 1..Len(DOCS[doc].pages) : AliasesOnPage(DOCS[doc].pages[k]) # {}}

\* the vendor the text decides on: the first of the table on the last page
\* that holds an alias
ChosenVendor(doc) ==
    LET k == CHOOSE a \in VendorPages(doc) : \A b \in VendorPages(doc) : a >= b
        hits == AliasesOnPage(DOCS[doc].pages[k])
    IN  CHOOSE i \in hits : \A j \in hits : i <= j

\* some page of doc holds an STA or "inc. respite" marker
HasStaMarker(doc) ==
    \E k \in 1..Len(DOCS[doc].pages) :
        \/ MatchesSta(Squash(DOCS[doc].pages[k]))
        \/ MatchesRespite(Squash(DOCS[doc].pages[k]))

TwinsAtStart ==
    /\ Len(files) = 2
    /\ Lower(files[1]) = Lower(files[2])
    /\ \A i \in 1..2 : Join(src_folder, files[i]) \in DOMAIN pass0.fs
    /\ pass0.fs[Join(src_folder, files[1])] = pass0.fs[Join(src_folder, files[2])]
    /\ LET h == _file_hash(pass0.fs[Join(src_folder, files[1])])
       IN  /\ h \in DOMAIN pass0.ledger
           /\ pass0.now - pass0.ledger[h].last_seen_utc < DupWindowDays

\* the files of this pass renamed with the marker so far
MarkedCount == Cardinality({i \in 1..Len(results) : results[i].marked})

\* the paths that hold the content of the first listed file
TwinCopies == {p \in DOMAIN fs : fs[p] = pass0.fs[Join(src_folder, files[1])]}

\* move_files has returned or raised
PassOver == pc = "idle" /\ results # <<>>

\* both files were examined with no error up to the rename: none disappeared,
\* both passed the settle check and were hashed, the ledger answered and
\* the bytes of the sibling could be read
ExaminedCleanly ==
    /\ taken = {}
    /\ Len(results) = Len(files)
    /\ \A i \in 1..Len(results) :
          /\ results[i].settled
          /\ results[i].file_hash # NoHash
          /\ ~results[i].sib_error
          /\ results[i].why # "ledger_query_error"

Collided == cur.calls > 0 /\ cur.dest_path \in DOMAIN cur.preFs

\* C6: safe_move never overwrites: whatever the call does, every file that
\* was there before it (other than the file moved) keeps its content; and
\* when the destination existed at the call and an attempt succeeds, the
\* file is at a numbered variant name (n).ext that did not exist before the
\* call, every variant of a lower number being taken.
C6_NeverOverwrites ==
    cur.calls > 0 =>
        /\ \A p \in DOMAIN cur.preFs :
              (p # cur.file_path /\ p \notin taken) =>
                  p \in DOMAIN fs /\ fs[p] = cur.preFs[p]
        /\ (Finished /\ cur.ok /\ Collided) =>
              \E n \in 1..VariantLimit :
                  /\ cur.final = Join(cur.dest_path[1], VariantName(cur.dest_path[2], n))
                  /\ cur.final \notin DOMAIN cur.preFs
                  /\ cur.final \in DOMAIN fs
                  /\ fs[cur.final] = cur.doc
                  /\ \A m \in 1..(n - 1) :
                        Join(cur.dest_path[1], VariantName(cur.dest_path[2], m))
                           \in DOMAIN fs

\* the destination and its variant (1) existed: the file was moved to the
\* variant (2) and the two older files hold what they held
C6_Witness ==
    /\ Finished
    /\ cur.ok
    /\ Collided
    /\ Join(cur.dest_path[1], VariantName(cur.dest_path[2], 1)) \in DOMAIN cur.preFs
    /\ cur.final = Join(cur.dest_path[1], VariantName(cur.dest_path[2], 2))
    /\ fs[cur.dest_path] = 8
    /\ fs[cur.final] = cur.doc

\* ---- C7 ----------------------------------------------------------------
\* the move raised on every attempt of the call
AllAttemptsRaised == Finished /\ cur.attempt > RETRIES

\* the quarantine names unmoved_<name>, unmoved_<name> (1), ...
QuarantineName(n) == Join(COULD_NOT_MOVE_FOLDER, VariantName(UNMOVED_PREFIX \o cur.filename, n))

\* C7 as stated: when the move raised on every attempt, the file is in the
\* quarantine folder under a uniquified name unmoved_<name> and the source
\* folder no longer holds it.
C7_Original ==
    AllAttemptsRaised =>
        /\ cur.file_path \notin DOMAIN fs
        /\ \E n \in 0..VariantLimit :
              /\ QuarantineName(n) \in DOMAIN fs
              /\ QuarantineName(n) \notin DOMAIN cur.preFs
              /\ fs[QuarantineName(n)] = cur.doc

\* C7, amended: when the move raised on every attempt, safe_move tries once
\* to move the file into the quarantine folder under the first free of the
\* names unmoved_<name>, unmoved_<name> (1), ...; when that move succeeds the
\* file is there and the source folder no longer holds it; when it raises
\* too, the file is still in the source folder.  No older quarantined file
\* is changed.
C7_QuarantineOrLeft ==
    AllAttemptsRaised =>
        /\ cur.state \in {"Quarantined", "LeftInSource"}
        /\ cur.state = "Quarantined" =>
              /\ cur.file_path \notin DOMAIN fs
              /\ \E n \in 0..VariantLimit :
                    /\ cur.final = QuarantineName(n)
                    /\ cur.final \notin DOMAIN cur.preFs
                    /\ \A m \in 0..(n - 1) : QuarantineName(m) \in DOMAIN cur.preFs
              /\ fs[cur.final] = cur.doc
        /\ cur.state = "LeftInSource" =>
              /\ cur.file_path \in DOMAIN fs
              /\ fs[cur.file_path] = cur.doc
        /\ \A p \in DOMAIN cur.preFs :
              p[1] = COULD_NOT_MOVE_FOLDER => p \in DOMAIN fs /\ fs[p] = cur.preFs[p]

\* every attempt raised and the file lies in the quarantine folder, beside
\* an older file of the same quarantine name, as unmoved_ABC123_invoice (1).pdf
C7_Witness ==
    /\ AllAttemptsRaised
    /\ cur.state = "Quarantined"
    /\ cur.filename = F_ABC
    /\ cur.final = Join(COULD_NOT_MOVE_FOLDER, VariantName(UNMOVED_PREFIX \o F_ABC, 1))
    /\ fs[cur.final] = cur.doc
    /\ cur.file_path \notin DOMAIN fs

\* ---- C8 ----------------------------------------------------------------
\* the file of cur was moved and the ledger had no row of its content when
\* the pass began
MovedNewContent ==
    /\ Finished
    /\ EndState(cur) = "Moved"
    /\ _file_hash(cur.doc) \notin DOMAIN pass0.ledger

\* C8 as stated: a file whose hash had no ledger row before the pass and
\* whose move succeeded has a row (one: the table is keyed by the hash) after.
C8_Original == MovedNewContent => _file_hash(cur.doc) \in DOMAIN ledger

\* C8, amended: such a file has its one row, first and last seen at the time
\* of the pass, when its hash was computed and the ledger write after the
\* move did not raise; when the hash could not be computed or the write
\* raised, this file adds no row.
C8_OneEntry ==
    MovedNewContent =>
        LET h == _file_hash(cur.doc)
        IN  /\ (cur.file_hash # NoHash /\ cur.why # "ledger_write_error") =>
                  /\ h \in DOMAIN ledger
                  /\ ledger[h].first_seen_utc = pass0.now
                  /\ ledger[h].last_seen_utc = pass0.now
            /\ (/\ cur.file_hash = NoHash \/ cur.why = "ledger_write_error"
                /\ \A i \in 1..Len(results) : results[i].doc = cur.doc => ~results[i].recorded)
               => h \notin DOMAIN ledger

\* a file of new content was moved and its row written
C8_Witness ==
    /\ MovedNewContent
    /\ cur.recorded
    /\ _file_hash(cur.doc) \in DOMAIN ledger
    /\ cur.final \in DOMAIN fs

\* ---- C9 ----------------------------------------------------------------
\* C9: a step of move_files that renames the file it examines with the
\* marker starts in a state where the ledger holds the hash of the file with
\* last-seen inside the 90-day window and where another file of the source
\* folder has the same name (up to case) and the same content.
C9_MarkStep ==
    (pc = "loop" /\ cur' # cur /\ cur'.marked) =>
        LET name == files[idx]
            path == Join(src_folder, name)
            h == _file_hash(fs[path])
        IN  /\ h \in DOMAIN ledger
            /\ now - ledger[h].last_seen_utc < DupWindowDays
            /\ \E q \in DOMAIN fs :
                  /\ q # path
                  /\ q[1] = src_folder
                  /\ Lower(q[2]) = Lower(name)
                  /\ fs[q] = fs[path]

C9_OnlyIfBoth == [][C9_MarkStep]_vars

\* a file was marked in a pass that began with its twin beside it and a
\* fresh row in the ledger
C9_Witness ==
    /\ TwinsAtStart
    /\ Finished
    /\ cur.marked
    /\ cur.seen
    /\ cur.match_path # NoPath

\* ---- C10 ---------------------------------------------------------------
\* C10: a file renamed with the marker (double_<name>, with a counter when
\* that name is taken) goes on, in the same iteration, through the branch an
\* unmarked file of its name and content takes, under its new name.  With no
\* I/O error it is moved unless no branch handles files of its kind; in
\* every case its content stays on disk (moved, quarantined or in the source
\* folder) unless the file was taken away from outside.
C10_MarkedGoesOn ==
    (Finished /\ cur.marked) =>
        /\ \E n \in 0..VariantLimit : cur.filename = VariantName(DOUBLE_PREFIX \o cur.listed, n)
        /\ cur.kind # "none"
        /\ cur.kind = Destination(src_folder, dest_folder, cur.listed, cur.doc,
                                  cur.kind # "ocr_error", CLIENT_RECORDS).kind
        /\ (cur.nf = 0 /\ cur.kind # "ignored") => EndState(cur) = "Moved"
        /\ EndState(cur) = "Moved" =>
              /\ cur.final \in NumberedVariants(Join(cur.dest_path[1], cur.filename))
              /\ fs[cur.final] = cur.doc
        /\ EndState(cur) = "Quarantined" => fs[cur.final] = cur.doc
        /\ EndState(cur) = "LeftInSource" =>
              /\ fs[cur.file_path] = cur.doc
              /\ cur.why \in LeftReasons
        /\ EndState(cur) = "SkippedNotFound" => cur.file_path \in taken

\* a marked file whose marker name was taken got a counter and was moved
\* under that name
C10_Witness ==
    /\ Finished
    /\ cur.marked
    /\ cur.listed = F_ABC
    /\ cur.filename = VariantName(DOUBLE_PREFIX \o F_ABC, 1)
    /\ EndState(cur) = "Moved"
    /\ cur.final[2] = cur.filename
    /\ fs[cur.final] = cur.doc

\* ---- C11 ---------------------------------------------------------------
\* the calls of _db_record made so far for the hash h, by their place
RecordsOf(h) == {i \in 1..Len(recorded) : recorded[i].file_hash = h}

FirstRecordOf(h) == CHOOSE i \in RecordsOf(h) : \A j \in RecordsOf(h) : i <= j

LastRecordOf(h) == CHOOSE i \in RecordsOf(h) : \A j \in RecordsOf(h) : i >= j

\* C11: after any sequence of _db_record calls under a clock that never goes
\* back, the ledger holds exactly one row for every hash that was ever
\* recorded (none is removed, none is doubled: the table is keyed by the
\* hash); the row's first_seen_utc is the time of the first record of the
\* hash, whatever was recorded later, its last_seen_utc is the time of the
\* latest record, and last_seen_utc >= first_seen_utc.
C11_UpsertKeepsFirstSeen ==
    /\ DOMAIN ledger = {recorded[i].file_hash : i \in 1..Len(recorded)}
    /\ \A h \in DOMAIN ledger :
          /\ ledger[h].first_seen_utc = recorded[FirstRecordOf(h)].at
          /\ ledger[h].last_seen_utc = recorded[LastRecordOf(h)].at
          /\ ledger[h].last_seen_utc >= ledger[h].first_seen_utc

\* a hash was recorded, then another, then the first again at a later time
C11_Witness ==
    \E h \in DOMAIN ledger :
        /\ Cardinality(RecordsOf(h)) >= 2
        /\ Cardinality(DOMAIN ledger) >= 2
        /\ ledger[h].first_seen_utc < ledger[h].last_seen_utc

\* ---- C12 ---------------------------------------------------------------
\* the latest record of the hash h is less than `days` days old at `clock`
RecordedWithin(h, days, clock) ==
    /\ RecordsOf(h) # {}
    /\ clock - recorded[LastRecordOf(h)].at < days

\* C12: a call _db_seen_recently(hash, days) returns true exactly when the
\* hash has been recorded and its latest record is less than `days` days old
\* (a record exactly `days` days old is outside the window), false when the
\* hash was never recorded or its latest record is older; the call leaves the
\* ledger as it was.
C12_SeenRecently ==
    [][(call' # call /\ call'.fn = "_db_seen_recently") =>
          /\ call'.ret = RecordedWithin(call'.file_hash, call'.days, now)
          /\ ledger' = ledger]_vars

\* the call returned true for a hash first recorded before the window and
\* recorded again inside it
C12_Witness ==
    /\ call.fn = "_db_seen_recently"
    /\ call.ret
    /\ call.at = now
    /\ RecordsOf(call.file_hash) # {}
    /\ now - recorded[FirstRecordOf(call.file_hash)].at >= call.days
    /\ now - recorded[LastRecordOf(call.file_hash)].at < call.days

\* ---- C13 ---------------------------------------------------------------
\* C13 as stated: after a successful move of a file whose hash was computed
\* and recorded, the row of that hash has as last_path the path the file was
\* moved to, numbered variant included, and the file at last_path has the
\* recorded hash.
C13_Original ==
    (Finished /\ cur.ok /\ cur.recorded) =>
        /\ cur.file_hash \in DOMAIN ledger
        /\ ledger[cur.file_hash].last_path = cur.final
        /\ ledger[cur.file_hash].last_path \in DOMAIN fs
        /\ _file_hash(fs[ledger[cur.file_hash].last_path]) = cur.file_hash

\* ---- C14 ---------------------------------------------------------------
\* the polls at which a run of `checks` consecutive equal sizes starts
StableRuns(obs, checks) ==
    {i \in 1..(Len(obs) - checks + 1) :
        /\ obs[i] # SizeError
        /\ \A j \in i..(i + checks - 1) : obs[j] = obs[i]}

\* C14 as stated: _wait_for_settle returns true only if the sizes it read
\* hold a run of `checks` (3) consecutive equal samples; when the checks * 3
\* polls are used up without such a run, it does not return true.
C14_Original ==
    (call.fn = "_wait_for_settle" /\ call.ret = "True") =>
        StableRuns(call.obs, SettleChecks) # {}

\* ---- C15 ---------------------------------------------------------------
\* _file_hash raised for the file of r (lines 355-357)
HashFailed(r) == r.settled /\ r.file_hash = NoHash

\* what move_files decides for the listed file of r when nothing raises
Undisturbed(r) ==
    Destination(src_folder, dest_folder, r.listed, r.doc, TRUE, CLIENT_RECORDS)

\* C15: a file whose hashing raised is classified and handed to safe_move in
\* the same pass, under its own name and with the destination it would have
\* had, and is moved there when nothing else fails; no ledger query and no
\* sibling scan is made for it, it is not renamed with the duplicate marker,
\* no row is written for it, and the loop goes on to the files listed after
\* it.
C15_HashFailureGoesOn ==
    /\ NoHash \notin DOMAIN ledger
    /\ \A i \in 1..Len(results) :
          HashFailed(results[i]) =>
             /\ ~results[i].seen
             /\ results[i].match_path = NoPath
             /\ ~results[i].marked
             /\ results[i].filename = results[i].listed
             /\ ~results[i].recorded
             /\ results[i].state # "Raised"
             /\ results[i].why \notin {"ledger_query_error", "ledger_write_error"}
    /\ (Finished /\ HashFailed(cur) /\ cur.nf = 1) =>
          /\ cur.kind = Undisturbed(cur).kind
          /\ cur.dest_path = Undisturbed(cur).dest_path
          /\ cur.dest_path # NoPath =>
                /\ EndState(cur) = "Moved"
                /\ cur.final \in NumberedVariants(cur.dest_path)
                /\ cur.final \in DOMAIN fs
                /\ fs[cur.final] = cur.doc
    /\ (PassOver /\ \A i \in 1..Len(results) : results[i].state # "Raised") =>
          Len(results) = Len(files)

\* the pass is over; the first of two files listed could not be hashed,
\* though the ledger has seen its content and its twin lay beside it, and was
\* moved unmarked; the file listed after it was handled too
C15_Witness ==
    /\ pc = "idle"
    /\ Len(results) = 2
    /\ HashFailed(results[1])
    /\ EndState(results[1]) = "Moved"
    /\ _db_seen_recently(pass0.ledger, _file_hash(results[1].doc), DupWindowDays, pass0.now)
    /\ SameNameAndHash(pass0.fs, dirs, src_folder, results[1].file_path,
                       results[1].listed, _file_hash(results[1].doc)) # {}
    /\ results[2].settled
    /\ EndState(results[2]) = "Moved"

\* ---- C16 ---------------------------------------------------------------
\* C16 as stated: whatever fails while one file is handled, the call of
\* move_files handles every file of its listing: when the call is over, each
\* listed file has had its iteration.
C16_Original == PassOver => Len(results) = Len(files)

\* ---- C17 ---------------------------------------------------------------
\* the calls of shutil.move towards the destination made so far by the call
\* of safe_move in cur: the failed ones and the successful one
MoveAttempts == cur.attempt + Flag(cur.ok)

\* the quarantine move was tried
FellBack == cur.why \in {"quarantined", "quarantine_failed", "quarantine_partial"}

\* C17 as stated: safe_move makes at most 3 attempts to move the file to its
\* destination before it falls back to quarantine.
C17_Original == MoveAttempts <= 3

\* C17, amended: every call of safe_move returns; with retries = 3 it makes
\* at most 4 attempts to move the file to its destination, the first and
\* three retries, and it falls back to quarantine after the fourth has
\* failed, never earlier.
C17_FourAttempts ==
    /\ [](MoveAttempts <= RETRIES + 1)
    /\ [](FellBack => (cur.attempt = RETRIES + 1 /\ ~cur.ok))
    /\ <>Finished

\* the fourth attempt failed and the file was quarantined
C17_Witness ==
    /\ Finished
    /\ MoveAttempts = RETRIES + 1
    /\ cur.state = "Quarantined"
    /\ cur.final \in DOMAIN fs

\* ---- C20 ---------------------------------------------------------------
\* C20: when the source path does not exist as safe_move is called, the call
\* returns False at once and the caller goes on to the next file: the files
\* and the directories on disk and the ledger are as before, no attempt and
\* no quarantine move is made.
C20_NotFoundNoEffect ==
    [][(pc = "call" /\ ~Exists(fs, dirs, cur.file_path)) =>
          /\ fs' = fs
          /\ dirs' = dirs
          /\ ledger' = ledger
          /\ pc' = "loop"
          /\ cur'.state = "SkippedNotFound"
          /\ ~cur'.ok
          /\ cur'.attempt = 0
          /\ cur'.final = NoPath]_vars

\* safe_move returned for a hashed file that was gone, and the folder of its
\* destination, which did not exist, still does not
C20_Witness ==
    /\ cur.state = "SkippedNotFound"
    /\ cur.file_path \notin DOMAIN fs
    /\ HasHash(cur.file_hash)
    /\ AsDir(cur.dest_path[1]) \notin dirs
    /\ ledger = <<>>

\* ---- C18 ---------------------------------------------------------------
\* the place in the table of the vendor v
VendorIndex(v) == CHOOSE i \in 1..Len(VENDORS) : VENDORS[i].vendor = v

\* the routed file is a PDF of the main source folder that the classifier
\* is run on: the receipts branch does not take it and it renders
ClassifiedMainPdf ==
    /\ call.fn = "route"
    /\ call.done
    /\ call.src = SRC_FOLDER
    /\ EndsWith(Lower(call.filename), PDF_EXT)
    /\ ~Contains(Lower(call.filename), RECEIPT_WORD)
    /\ DOCS[call.doc].renders

\* the folder the precedence of C18 gives the file `filename` holding doc
PrecedenceFolder(filename, doc) ==
    LET root == PlanRootOf(filename)
    IN  IF HasNdisMarker(doc) THEN NDIS_STATEMENT_PATH
        ELSE IF HasStaMarker(doc) THEN root \o <<N_STA>>
        ELSE IF VendorPages(doc) # {}
        THEN root \o <<CategoryFolderName(ChosenVendor(doc))>>
        ELSE IF VendorFromFilename(filename) # NoVendor
        THEN root \o <<CategoryFolderName(VendorIndex(VendorFromFilename(filename)))>>
        ELSE root \o <<N_NewProvider>>

LowerStem(filename) == Lower(SplitExt(filename)[1])

\* the records, by their place, that match the name as C19 words it: the
\* code is a prefix of the stem, case set aside, or the normalized code is a
\* prefix of the normalized stem
PrefixMatches(filename) ==
    {i \in 1..Len(CLIENT_RECORDS) :
        \/ StartsWith(LowerStem(filename), Lower(CLIENT_RECORDS[i].code))
        \/ StartsWith(KeepAlnum(LowerStem(filename)),
                      KeepAlnum(Lower(CLIENT_RECORDS[i].code)))}

\* the same, the normalized code counting only when it is not empty
GuardedMatches(filename) ==
    {i \in 1..Len(CLIENT_RECORDS) :
        \/ StartsWith(LowerStem(filename), Lower(CLIENT_RECORDS[i].code))
        \/ /\ KeepAlnum(Lower(CLIENT_RECORDS[i].code)) # <<>>
           /\ StartsWith(KeepAlnum(LowerStem(filename)),
                         KeepAlnum(Lower(CLIENT_RECORDS[i].code)))}

\* the plan manager of the first of the records `hits`, "" when there is none
FirstPlanManager(hits) ==
    IF hits = {} THEN <<>>
    ELSE CLIENT_RECORDS[CHOOSE i \in hits : \A j \in hits : i <= j].plan_manager

\* C19 as stated: the lookup returns the plan manager of the first record
\* whose code is a case-insensitive prefix of the stem or whose normalized
\* code is a prefix of the normalized stem, "" when no record matches.
C19_Original ==
    (call.fn = "_lookup_plan_manager" /\ call.done) =>
        call.plan_manager = FirstPlanManager(PrefixMatches(call.filename))

\* C19, amended: the lookup returns the plan manager of the first record, in
\* registry order, whose code is a case-insensitive prefix of the stem or
\* whose normalized code is not empty and is a prefix of the normalized stem;
\* it returns "" when no record matches; and an empty result gives the
\* 'Unassigned Plan Manager' folder as the plan-manager root.
C19_FirstMatch ==
    (call.fn = "_lookup_plan_manager" /\ call.done) =>
        /\ call.plan_manager = FirstPlanManager(GuardedMatches(call.filename))
        /\ call.plan_manager = <<>> =>
              call.plan_manager_base = UNASSIGNED_PLAN_MANAGER_FOLDER

\* two records with different plan managers match the name, the second of
\* them by its normalized code only, and the first one's was returned
C19_Witness ==
    /\ call.fn = "_lookup_plan_manager"
    /\ call.done
    /\ Cardinality(GuardedMatches(call.filename)) = 2
    /\ \E i, j \in GuardedMatches(call.filename) :
          /\ i < j
          /\ CLIENT_RECORDS[i].plan_manager # CLIENT_RECORDS[j].plan_manager
          /\ ~StartsWith(LowerStem(call.filename), Lower(CLIENT_RECORDS[j].code))
          /\ call.plan_manager = CLIENT_RECORDS[i].plan_manager
          /\ call.plan_manager # <<>>

\* ---- C21 ---------------------------------------------------------------
\* the call of safe_move of cur is over and its move into the quarantine
\* folder raised
QuarantineFailed == Finished /\ cur.why \in {"quarantine_failed", "quarantine_partial"}

\* C21: when the move into the quarantine folder raises after every attempt
\* towards the destination has raised, safe_move has returned False without
\* another attempt, the file lies at its source path with the content it had,
\* and a listing of the source folder by move_files holds its name.
C21_QuarantineFailureLeavesFile ==
    QuarantineFailed =>
        /\ pc = "loop"
        /\ ~cur.ok
        /\ cur.state = "LeftInSource"
        /\ cur.attempt = RETRIES + 1
        /\ cur.file_path \in DOMAIN fs
        /\ fs[cur.file_path] = cur.doc
        /\ cur.file_path[1] = src_folder
        /\ cur.file_path[2] \in ListedFiles(fs, dirs, src_folder)

\* the quarantine move raised after it had written its copy: the copy lies
\* in the quarantine folder and the file still lies in the source folder
C21_Witness ==
    /\ QuarantineFailed
    /\ cur.why = "quarantine_partial"
    /\ cur.attempt = RETRIES + 1
    /\ cur.file_path \in DOMAIN fs
    /\ \E p \in DOMAIN fs : p[1] = COULD_NOT_MOVE_FOLDER /\ p \notin DOMAIN cur.preFs

\* ---- C22 ---------------------------------------------------------------
\* os.makedirs raised in the call of safe_move of cur
MakedirsRaised == Finished /\ cur.why = "makedirs_error"

\* C22 as stated: a failure to create the destination folder is retried like
\* a failed move, and a file whose destination folder cannot be created ends
\* in the quarantine folder and not in the source folder.
C22_Original ==
    MakedirsRaised =>
        /\ cur.attempt = RETRIES + 1
        /\ cur.state = "Quarantined"
        /\ cur.file_path \notin DOMAIN fs

\* ---- C23 ---------------------------------------------------------------
\* the step ends the iteration of a file that was there and for which
\* _wait_for_settle returned False
C23_UnsettledStep ==
    /\ pc = "loop"
    /\ results' = Append(results, cur')
    /\ cur'.state # "SkippedMissing"
    /\ ~cur'.settled

\* C23: when _wait_for_settle returns False for a file, move_files goes on
\* to the next file of the listing without raising; it has not hashed,
\* renamed, classified or moved the file, the files on disk and the ledger
\* are what they were, and a listing of the source folder holds the file's
\* name again.
C23_UnsettledSkipped ==
    [][C23_UnsettledStep =>
          /\ cur'.state = "NotSettled"
          /\ pc' = "loop"
          /\ idx' = idx + 1
          /\ cur'.file_hash = NoHash
          /\ ~cur'.marked
          /\ cur'.filename = cur'.listed
          /\ cur'.kind = "none"
          /\ cur'.dest_path = NoPath
          /\ cur'.attempt = 0
          /\ ~cur'.ok
          /\ ~cur'.recorded
          /\ fs' = fs
          /\ dirs' = dirs
          /\ ledger' = ledger
          /\ cur'.listed \in ListedFiles(fs', dirs', src_folder)]_vars

\* a file whose size could not be read was skipped, and the file listed
\* after it was handled in the same pass
C23_Witness ==
    /\ Len(results) = 2
    /\ results[1].state = "NotSettled"
    /\ results[1].nf = 1
    /\ results[1].file_path \in DOMAIN fs
    /\ results[2].settled
    /\ EndState(results[2]) = "Moved"

\* ---- C24 ---------------------------------------------------------------
\* the first vendor, in table order, whose alias some page of doc holds
FirstInTable(doc) ==
    LET hits == UNION {AliasesOnPage(DOCS[doc].pages[k]) : k \in 1..Len(DOCS[doc].pages)}
    IN  CHOOSE i \in hits : \A j \in hits : i <= j

\* C24 as stated: for a PDF of the main source folder routed by the vendor
\* its text holds, that vendor is the first of the table whose alias occurs
\* on any page; a later page does not replace it.
C24_Original ==
    (/\ ClassifiedMainPdf
     /\ ~HasNdisMarker(call.doc)
     /\ ~HasStaMarker(call.doc)
     /\ VendorPages(call.doc) # {})
    => call.ret.dest_path =
          Join(PlanRootOf(call.filename) \o <<CategoryFolderName(FirstInTable(call.doc))>>,
               call.filename)

\* ---- C25 ---------------------------------------------------------------
RESPITE_WORDS == <<"i","n","c","."," ","r","e","s","p","i","t","e">>

\* some page of doc reads "inc. respite", in any case, the two words
\* separated by one ordinary space
HasRespiteWords(doc) ==
    \E k \in 1..Len(DOCS[doc].pages) : Contains(Lower(DOCS[doc].pages[k]), RESPITE_WORDS)

\* C25 as stated: a PDF of the main source folder whose text reads
\* "inc. respite" and holds no NDIS statement marker is routed to the
\* 'STA and Assistance' folder under the root of its plan manager, whatever
\* vendor alias the text holds.
C25_Original ==
    (ClassifiedMainPdf /\ HasRespiteWords(call.doc) /\ ~HasNdisMarker(call.doc))
    => call.ret.dest_path = Join(PlanRootOf(call.filename) \o <<N_STA>>, call.filename)

\* ---- C26 ---------------------------------------------------------------
\* the threads that are alive
AliveThreads == {t \in 1..Len(threads) : threads[t].pc # "dead"}

\* C26: whatever the order of the Run and Stop requests, of the scheduled
\* checks and of the steps of the pipeline threads, at most one pipeline
\* thread is alive, and it is the one App.script_thread refers to; the stages
\* of an iteration are those of the loop of main(), each begun after the one
\* before it returned.
C26_OnePipelineThread ==
    /\ Cardinality(AliveThreads) <= 1
    /\ \A t \in AliveThreads : script_thread = t
    /\ \A t \in 1..Len(threads) :
          /\ threads[t].done = SubSeq(STAGES, 1, Len(threads[t].done))
          /\ threads[t].pc \in Range(STAGES) =>
                threads[t].pc = STAGES[Len(threads[t].done) + 1]

\* a second thread was started after the first had ended, and runs while a
\* Stop request for it is pending
C26_Witness ==
    /\ Len(threads) = 2
    /\ threads[1].pc = "dead"
    /\ threads[2].pc = "convert_files"
    /\ stop_flag
    /\ script_thread = 2

\* ---- C30 ---------------------------------------------------------------
\* the iteration of the thread t is over: the loop is back at its test, or
\* an exception took it to the handler
IterationOver(t) == threads[t].pc = "except" \/ (threads[t].pc = "while" /\ threads[t].done # <<>>)

\* C30 as stated: an iteration in which attachment retrieval, category
\* forwarding and PDF conversion returned without error has gone on through
\* pytesseract_main and the passes over Attempt Code, Failed and Renamed
\* Invoices, in this order, when it is over.
C30_Original ==
    \A t \in 1..Len(threads) :
        (IterationOver(t) /\ Len(threads[t].done) >= 3) => threads[t].done = STAGES

\* ---- C27 ---------------------------------------------------------------
\* the file of the finished iteration r was renamed with the marker and then
\* routed to a folder under a plan-manager root
MarkedAndRouted(r) == r.marked /\ r.kind = "routed"

\* C27 as stated: a file renamed to double_<name> is routed under the
\* plan-manager root that <name>, the name it was listed with, resolves to.
C27_Original ==
    (Finished /\ MarkedAndRouted(cur)) =>
        LET root == PlanRootOf(cur.listed)
        IN  /\ Len(cur.dest_path[1]) > Len(root)
            /\ SubSeq(cur.dest_path[1], 1, Len(root)) = root

\* ---- C28 ---------------------------------------------------------------
\* filename is <code><separator><description>.<ext>, the separator being an
\* underscore, a hyphen or a space
CodeThenSeparator(filename, code) ==
    LET stem == SplitExt(filename)[1]
    IN  /\ Len(stem) > Len(code) + 1
        /\ SubSeq(stem, 1, Len(code)) = code
        /\ stem[Len(code) + 1] \in {"_", "-", " "}

\* C28 as stated: for a name that is the code of a registry record followed
\* by a separator and a description, the lookup returns the plan manager of
\* that record, whatever the other records and their order.
C28_Original ==
    (call.fn = "_lookup_plan_manager" /\ call.done) =>
        \A i \in 1..Len(CLIENT_RECORDS) :
            CodeThenSeparator(call.filename, CLIENT_RECORDS[i].code) =>
                call.plan_manager = CLIENT_RECORDS[i].plan_manager

\* ---- C29 ---------------------------------------------------------------
\* the step ends an iteration of the for loop of move_files
C29_IterationEnds == pc \in {"loop", "move"} /\ results' = Append(results, cur')

\* C29: move_files writes to the ledger only after a call of safe_move that
\* returned True, and then only the row of the hash of the file it moved;
\* an iteration whose call of safe_move returned False (source not found,
\* file quarantined, quarantine failed, error inside safe_move) or that made
\* no call leaves the ledger as it was.
C29_LedgerOnlyAfterSuccess ==
    [][/\ ledger' # ledger =>
             /\ C29_IterationEnds
             /\ cur'.ok
             /\ cur'.recorded
             /\ HasHash(cur'.file_hash)
             /\ \A h \in DOMAIN ledger' :
                   h # cur'.file_hash => (h \in DOMAIN ledger /\ ledger'[h] = ledger[h])
       /\ (C29_IterationEnds /\ ~cur'.ok) => (ledger' = ledger /\ ~cur'.recorded)]_vars

\* a hashed file was quarantined and the ledger, which had no row of its
\* hash, has none
C29_Witness ==
    /\ Finished
    /\ cur.state = "Quarantined"
    /\ cur.attempt = RETRIES + 1
    /\ HasHash(cur.file_hash)
    /\ cur.file_hash \notin DOMAIN ledger
    /\ ledger = pass0.ledger
    /\ cur.final \in DOMAIN fs

====
